---- MODULE Spec2Model ----
(***************************************************************************)
(* Participant / relation repositories of the user manager, with the       *)
(* session (unit of work) they share, the hydration of Participant objects *)
(* and the login path that feeds the policy enforcer.                      *)
(***************************************************************************)
EXTENDS FiniteSets, Integers, Sequences, TLC

VARIABLES db, tx, obj, ret, clock, st, chk, cache, run

vars == <<db, tx, obj, ret, clock, st, chk, cache, run>>

(* ---------------------------------------------------------------------- *)
(* Bounds                                                                 *)
(* ---------------------------------------------------------------------- *)
MaxRel == 4
MaxClock == 2

MaxPati == 8

(* ---------------------------------------------------------------------- *)
(* Literals of the models                                                 *)
(* ---------------------------------------------------------------------- *)
NULL == "NULL"

ParticipantType == {"HUMAN", "ROLE", "ORG_UNIT", "SYSTEM"}

ParticipantState == {"ACTIVE", "TERMINATED"}

ParticipantRelationType == {"GRANT", "MEMBER OF", "PROXY OF"}

Sessions == {1, 2}

(* The participants of the bootstrap data the relation graph is built on:  *)
(* rows created through ParticipantCreate without a state are stored with  *)
(* state NULL, rows created through add_role with state ACTIVE.            *)
(* A ParticipantModel before it is inserted: no id yet; the timestamps are *)
(* readings of the clock, 0 for the time before the model starts and for  *)
(* an updated_timestamp that was never set.                               *)
Row(n, d, t, s) ==
    [id |-> 0, name |-> n, display_name |-> d, description |-> NULL,
     participant_type |-> t, state |-> s, update_count |-> 0,
     created_by |-> "SYSTEM", created_timestamp |-> 0,
     updated_by |-> NULL, updated_timestamp |-> 0]

(* the primary key: the rows are numbered as they are inserted *)
WithId(rows) == [i \in DOMAIN rows |-> [rows[i] EXCEPT !.id = i]]

create_participants ==
    WithId(<<Row("SYSTEM", "SYSTEM", "SYSTEM", NULL),
             Row("EINSTEIN", "Einstein, Albert", "HUMAN", NULL),
             Row("NEWTON", "Newton, Isaac", "HUMAN", NULL),
             Row("SCIENTISTS", "Scientists", "ORG_UNIT", NULL),
             Row("MATHEMATICIANS", "Mathematicians", "ORG_UNIT", NULL),
             Row("ADMINISTRATOR", "Administrator", "ROLE", "ACTIVE"),
             Row("PUBLIC", "PUBLIC", "ROLE", "ACTIVE")>>)

Ids == DOMAIN create_participants

(* The edges the callers of this model ask for: <<pati1_id, pati2_id, type>> *)
EdgeChoices ==
    {<<2, 6, "GRANT">>, <<2, 4, "MEMBER OF">>, <<2, 3, "PROXY OF">>,
     <<3, 6, "GRANT">>, <<3, 4, "MEMBER OF">>,
     <<4, 6, "GRANT">>, <<4, 5, "MEMBER OF">>, <<5, 7, "GRANT">>}

(* The edges asked for where the unit of work is followed row by row *)
CrudEdges ==
    {<<2, 6, "GRANT">>, <<2, 4, "MEMBER OF">>, <<4, 6, "GRANT">>,
     <<3, 2, "PROXY OF">>}

NoObj == [id |-> 0]

(* no current user: the key current_user is not set, or set to {} *)
NoUser == [username |-> "", roles |-> {}, effective_roles |-> {}]

(* a casbin enforcer as loaded: the role hierarchy g of the policy file   *)
(* and no role for any user                                               *)
NewEnforcer(g) == [g |-> g, users |-> {}]

(* st.session_state of a new browser session *)
NoSession ==
    [current_user |-> NoUser, must_register |-> FALSE,
     policy_enforcer |-> NewEnforcer({})]

(* no exists() result is held by the caller *)
NoCheck == [column |-> "none"]

(* st.cache_data holds no result of check_access *)
NoCache == {}

(* no callback of the browser session is between two of its statements *)
Idle == [at |-> "idle"]

(* ---------------------------------------------------------------------- *)
(* The session: reads see the pending state of the unit of work           *)
(* ---------------------------------------------------------------------- *)
View(s) == IF tx[s] = <<>> THEN db ELSE tx[s][1]

(* A write needs the database's write lock: no other session has pending  *)
(* writes.                                                                *)
CanWrite(s) == \A s2 \in Sessions \ {s} : tx[s2] = <<>>

Pending(s, store) == [tx EXCEPT ![s] = <<store>>]

session_rollback_keeps(s) == tx

session_rollback(s) == [tx EXCEPT ![s] = <<>>]

(* A row of participant_relations is <<pati1_id, pati2_id, relation_type, *)
(* n>>, n telling apart rows that agree on the three columns.             *)
Edge(r) == <<r[1], r[2], r[3]>>

RowsOf(store, e) == {r \in store.rel : Edge(r) = e}

NumRows(store) == Cardinality(store.rel)

(* UniqueConstraint participant_relations_ak1 *)
participant_relations_ak1_off(store, e) == TRUE

participant_relations_ak1(store, e) == RowsOf(store, e) = {}

(* ---------------------------------------------------------------------- *)
(* ParticipantRelationRepository                                          *)
(* ---------------------------------------------------------------------- *)
NotTerminated(store, id) == store.pati[id].state \in {NULL, "ACTIVE"}

(* get: the rows whose source is participant_id, of the given types; the  *)
(* state condition of the statement is on ParticipantModel, the row        *)
(* joined on pati1_id.                                                    *)
get(store, participant_id, relation_type) ==
    {r \in store.rel :
        /\ r[1] = participant_id
        /\ r[3] \in relation_type
        /\ NotTerminated(store, r[1])}

(* get_reverse: the rows whose target is participant_id; the state        *)
(* condition is on the source, which is the participant returned.         *)
get_reverse_of_source(store, participant_id, relation_type) ==
    {r \in store.rel :
        /\ r[1] = participant_id
        /\ r[3] \in relation_type
        /\ NotTerminated(store, r[1])}

get_reverse(store, participant_id, relation_type) ==
    {r \in store.rel :
        /\ r[2] = participant_id
        /\ r[3] \in relation_type
        /\ NotTerminated(store, r[1])}

(* number of entries of get(a, (t,)) whose related participant is b *)
GetEntries(store, e) ==
    Cardinality({r \in get(store, e[1], {e[3]}) : r[2] = e[2]})

(* create: session.add, then flush in the else branch; the IntegrityError  *)
(* of the flush is raised outside the try, whatever the flag, and the     *)
(* failed flush leaves the transaction rolled back.                       *)
RelCreateInsert(s, e) ==
    IF participant_relations_ak1(View(s), e)
    THEN Pending(s, [View(s) EXCEPT
                        !.rel = @ \cup {<<e[1], e[2], e[3], Cardinality(RowsOf(View(s), e)) + 1>>}])
    ELSE session_rollback(s)

RelCreateOutcome(s, e) ==
    IF participant_relations_ak1(View(s), e) THEN "created" ELSE "IntegrityError"

RelCreate(s, e, raise_error_on_duplicate) ==
    /\ CanWrite(s)
    /\ NumRows(View(s)) < MaxRel
    /\ tx' = RelCreateInsert(s, e)
    /\ ret' = [op |-> "create",
               raise_error_on_duplicate |-> raise_error_on_duplicate,
               outcome |-> RelCreateOutcome(s, e)]
    /\ UNCHANGED <<db, obj, clock, st, chk, cache, run>>

(* ---------------------------------------------------------------------- *)
(* ParticipantRepository: relations                                       *)
(* ---------------------------------------------------------------------- *)
(* add_relation(participant, pati2_id, relation_type): create(.., True)   *)
(* inside a ParticipantRelationRepository with-block, whose __exit__      *)
(* rolls the session back when the create raised.                         *)
AddRelation(s, e) ==
    /\ CanWrite(s)
    /\ NumRows(View(s)) < MaxRel
    /\ tx' = RelCreateInsert(s, e)
    /\ ret' = [op |-> "add_relation", outcome |-> RelCreateOutcome(s, e)]
    /\ UNCHANGED <<db, obj, clock, st, chk, cache, run>>

(* add_reverse_relation(participant, pati1_id, relation_type): the caller *)
(* holds the target e[2] and names the source e[1].                       *)
AddReverseRelation(s, e) ==
    /\ CanWrite(s)
    /\ NumRows(View(s)) < MaxRel
    /\ tx' = RelCreateInsert(s, e)
    /\ ret' = [op |-> "add_reverse_relation", outcome |-> RelCreateOutcome(s, e)]
    /\ UNCHANGED <<db, obj, clock, st, chk, cache, run>>

DeleteRows_none(store, doomed) == store

DeleteRows(store, doomed) == [store EXCEPT !.rel = @ \ doomed]

DeleteOutcome(rowcount, raise_error_if_not_found) ==
    IF rowcount = 0 /\ raise_error_if_not_found
    THEN "ParticipantRelationNotFoundError" ELSE "ok"

(* delete_relation: delete where pati1_id, pati2_id, relation_type match; *)
(* flush; ParticipantRelationNotFoundError on rowcount 0 when asked.      *)
DeleteRelation(s, e, raise_error_if_not_found) ==
    /\ CanWrite(s)
    /\ tx' = Pending(s, DeleteRows(View(s), RowsOf(View(s), e)))
    /\ ret' = [op |-> "delete_relation",
               outcome |-> DeleteOutcome(Cardinality(RowsOf(View(s), e)),
                                         raise_error_if_not_found)]
    /\ UNCHANGED <<db, obj, clock, st, chk, cache, run>>

DeleteReverseRelation(s, e, raise_error_if_not_found) ==
    /\ CanWrite(s)
    /\ tx' = Pending(s, DeleteRows(View(s), RowsOf(View(s), e)))
    /\ ret' = [op |-> "delete_reverse_relation",
               rowcount |-> Cardinality(RowsOf(View(s), e)),
               outcome |-> DeleteOutcome(Cardinality(RowsOf(View(s), e)),
                                         raise_error_if_not_found)]
    /\ UNCHANGED <<db, obj, clock, st, chk, cache, run>>

InvolvedRows_as_source(store, participant_id) ==
    {r \in store.rel : r[1] = participant_id}

InvolvedRows(store, participant_id) ==
    {r \in store.rel : r[1] = participant_id \/ r[2] = participant_id}

(* delete_all_participant_relations: every row with the id on either side *)
DeleteAllParticipantRelations(s, participant_id) ==
    /\ CanWrite(s)
    /\ tx' = Pending(s, DeleteRows(View(s), InvolvedRows(View(s), participant_id)))
    /\ ret' = [op |-> "delete_all_participant_relations",
               participant_id |-> participant_id,
               rowcount |-> Cardinality(InvolvedRows(View(s), participant_id)),
               outcome |-> "ok"]
    /\ UNCHANGED <<db, obj, clock, st, chk, cache, run>>

(* ---------------------------------------------------------------------- *)
(* RepositoryBase                                                         *)
(* ---------------------------------------------------------------------- *)
Commit(s) ==
    /\ tx[s] # <<>>
    /\ db' = tx[s][1]
    /\ tx' = [tx EXCEPT ![s] = <<>>]
    /\ ret' = [op |-> "commit", outcome |-> "ok"]
    /\ UNCHANGED <<obj, clock, st, chk, cache, run>>

Rollback(s) ==
    /\ tx[s] # <<>>
    /\ tx' = session_rollback(s)
    /\ ret' = [op |-> "rollback", outcome |-> "ok"]
    /\ UNCHANGED <<db, obj, clock, st, chk, cache, run>>

(* ---------------------------------------------------------------------- *)
(* Relation specification: one unit of work on the relation table          *)
(* ---------------------------------------------------------------------- *)
Init ==
    /\ db = [pati |-> create_participants, rel |-> {}]
    /\ tx = [s \in Sessions |-> <<>>]
    /\ obj = NoObj
    /\ ret = [op |-> "init", outcome |-> "ok"]
    /\ clock = 1
    /\ st = NoSession
    /\ chk = [s \in Sessions |-> NoCheck]
    /\ cache = NoCache
    /\ run = Idle

Next ==
    \/ \E e \in CrudEdges, f \in BOOLEAN : RelCreate(1, e, f)
    \/ \E e \in CrudEdges : AddRelation(1, e)
    \/ \E e \in CrudEdges : AddReverseRelation(1, e)
    \/ \E e \in CrudEdges, f \in BOOLEAN : DeleteRelation(1, e, f)
    \/ \E e \in CrudEdges, f \in BOOLEAN : DeleteReverseRelation(1, e, f)
    \/ \E p \in Ids : DeleteAllParticipantRelations(1, p)
    \/ Commit(1)
    \/ Rollback(1)

Spec == Init /\ [][Next]_vars

(* ---------------------------------------------------------------------- *)
(* ParticipantRepository: Participant objects and their hydration         *)
(* ---------------------------------------------------------------------- *)
(* Participant.validate_state: an unset state reads as ACTIVE *)
validate_state(v) == IF v = NULL THEN "ACTIVE" ELSE v

(* RelatedParticipant.participant: the Participant built from the row *)
Related(store, id) == [id |-> id, name |-> store.pati[id].name]

RelatedState(store, id) == validate_state(store.pati[id].state)

(* the Participant built from a row: the relation lists start empty *)
NewParticipant(store, id) ==
    [id |-> id, name |-> store.pati[id].name,
     roles |-> {}, org_units |-> {}, proxy_of |-> {}, proxies |-> {},
     effective_roles |-> {}]

(* the targets of the rows of one type whose Participant is ACTIVE *)
ActiveTargets(store, relations, t) ==
    {Related(store, r[2]) : r \in {x \in relations :
        x[3] = t /\ RelatedState(store, x[2]) = "ACTIVE"}}

ActiveSources(store, relations) ==
    {Related(store, r[1]) : r \in {x \in relations :
        RelatedState(store, x[1]) = "ACTIVE"}}

(* set_relations: returns the object as it is when get finds no row;      *)
(* otherwise resets the three lists and fills them; the proxies only on   *)
(* request and only when get_reverse finds a row.                         *)
SetOutgoing(store, o) ==
    [o EXCEPT !.roles = ActiveTargets(store, get(store, o.id, ParticipantRelationType), "GRANT"),
              !.org_units = ActiveTargets(store, get(store, o.id, ParticipantRelationType), "MEMBER OF"),
              !.proxy_of = ActiveTargets(store, get(store, o.id, ParticipantRelationType), "PROXY OF")]

SetIncoming(store, o) ==
    IF get_reverse(store, o.id, {"PROXY OF"}) = {}
    THEN o
    ELSE [o EXCEPT !.proxies = ActiveSources(store, get_reverse(store, o.id, {"PROXY OF"}))]

set_relations(store, o, set_proxies) ==
    IF get(store, o.id, ParticipantRelationType) = {}
    THEN o
    ELSE IF set_proxies THEN SetIncoming(store, SetOutgoing(store, o))
         ELSE SetOutgoing(store, o)

(* get_granted_roles: the names of the targets of get(pati.id, ("GRANT",)) *)
get_granted_roles(store, participants) ==
    UNION {{store.pati[r[2]].name : r \in get(store, p.id, {"GRANT"})} : p \in participants}

compute_effective_roles_no_proxy(store, o) ==
    {role.name : role \in o.roles} \cup get_granted_roles(store, o.org_units)

(* compute_effective_roles: the names of the direct roles, of the roles   *)
(* granted to the org units and of the roles granted to the participants  *)
(* the object is proxy of                                                 *)
compute_effective_roles(store, o) ==
    {role.name : role \in o.roles}
        \cup get_granted_roles(store, o.org_units)
        \cup get_granted_roles(store, o.proxy_of)

NotFoundOutcome_none(raise_error_if_not_found) == "None"

(* if result is None: raise ParticipantNotFoundError when asked to,       *)
(* return None otherwise                                                  *)
NotFoundOutcome(raise_error_if_not_found) ==
    IF raise_error_if_not_found THEN "ParticipantNotFoundError" ELSE "None"

(* what a call that found nothing leaves in the caller's hands: None, or  *)
(* what was there when the call raised                                    *)
NotFound(op, raise_error_if_not_found) ==
    /\ obj' = IF NotFoundOutcome(raise_error_if_not_found) = "None" THEN NoObj ELSE obj
    /\ ret' = [op |-> op, outcome |-> NotFoundOutcome(raise_error_if_not_found),
               raise_error_if_not_found |-> raise_error_if_not_found]

(* get_by_id(id, include_relations, include_proxies,                      *)
(* raise_error_if_not_found)                                              *)
GetById(s, id, include_relations, include_proxies) ==
    /\ IF id \notin DOMAIN View(s).pati
       THEN \E raise_error_if_not_found \in BOOLEAN :
                NotFound("get_by_id", raise_error_if_not_found)
       ELSE /\ obj' = IF include_relations
                      THEN set_relations(View(s), NewParticipant(View(s), id),
                                         include_proxies)
                      ELSE NewParticipant(View(s), id)
            /\ ret' = [op |-> "get_by_id", outcome |-> "ok"]
    /\ UNCHANGED <<db, tx, clock, st, chk, cache, run>>

(* set_relations on the object the caller holds *)
SetRelations(s, set_proxies) ==
    /\ obj # NoObj
    /\ obj' = set_relations(View(s), obj, set_proxies)
    /\ ret' = [op |-> "set_relations", outcome |-> "ok"]
    /\ UNCHANGED <<db, tx, clock, st, chk, cache, run>>

(* compute_effective_roles on the object the caller holds *)
ComputeEffectiveRoles(s) ==
    /\ obj # NoObj
    /\ obj' = [obj EXCEPT !.effective_roles = compute_effective_roles(View(s), obj)]
    /\ ret' = [op |-> "compute_effective_roles", outcome |-> "ok"]
    /\ UNCHANGED <<db, tx, clock, st, chk, cache, run>>

(* ---------------------------------------------------------------------- *)
(* ParticipantRepository: state transitions                               *)
(* ---------------------------------------------------------------------- *)
(* update(ParticipantModel).where(id == participant.id)                   *)
(*     .values(state=state, updated_timestamp=now)                        *)
UpdateState(store, id, state) ==
    [store EXCEPT !.pati[id].state = state, !.pati[id].updated_timestamp = clock]

IsSystemName_off(store, id) == FALSE

(* if participant.name == "SYSTEM": return participant *)
IsSystemName(store, id) == store.pati[id].name = "SYSTEM"

(* set_participant_state(participant, state, raise_error_if_not_found) on *)
(* the Participant read from row id: nothing happens for the name SYSTEM; *)
(* otherwise the row is written and the object returned carries the new   *)
(* state. For an id that is not stored (a Participant, ACTIVE when it was *)
(* read, whose row is gone) the statement matches no row: the object is   *)
(* returned as it was, or ParticipantNotFoundError raised.                *)
SetParticipantState(s, id, state, op) ==
    /\ CanWrite(s)
    /\ IF id \notin DOMAIN View(s).pati
       THEN /\ tx' = tx
            /\ \E raise_error_if_not_found \in BOOLEAN :
                ret' = [op |-> op, state |-> "ACTIVE",
                        raise_error_if_not_found |-> raise_error_if_not_found,
                        outcome |-> IF raise_error_if_not_found
                                    THEN "ParticipantNotFoundError" ELSE "ok"]
       ELSE /\ tx' = IF IsSystemName(View(s), id) THEN tx
                     ELSE Pending(s, UpdateState(View(s), id, state))
            /\ ret' = [op |-> op, outcome |-> "ok",
                       state |-> IF IsSystemName(View(s), id)
                                 THEN validate_state(View(s).pati[id].state) ELSE state]
    /\ UNCHANGED <<db, obj, clock, st, chk, cache, run>>

TerminateParticipant(s, id) ==
    SetParticipantState(s, id, "TERMINATED", "terminate_participant")

ActivateParticipant(s, id) ==
    SetParticipantState(s, id, "ACTIVE", "activate_participant")

(* ---------------------------------------------------------------------- *)
(* Hydration specification: one unit of work builds a graph, changes      *)
(* states and hydrates the Participant object of one subject              *)
(* ---------------------------------------------------------------------- *)
HydSubjects == {2}

StateChoices == {1, 2, 3, 4, 6}

(* every participant but SYSTEM and MATHEMATICIANS has been activated at *)
(* the current time                                                      *)
HydInit ==
    /\ db = [pati |-> [id \in Ids |->
                IF id \in {1, 5} THEN create_participants[id]
                ELSE [create_participants[id] EXCEPT !.state = "ACTIVE",
                                                     !.updated_timestamp = 1]],
             rel |-> {}]
    /\ tx = [s \in Sessions |-> <<>>]
    /\ obj = NoObj
    /\ ret = [op |-> "init", outcome |-> "ok"]
    /\ clock = 1
    /\ st = NoSession
    /\ chk = [s \in Sessions |-> NoCheck]
    /\ cache = NoCache
    /\ run = Idle

HydNext ==
    \/ \E e \in EdgeChoices : AddRelation(1, e)
    \/ \E p \in HydSubjects : DeleteAllParticipantRelations(1, p)
    \/ \E p \in StateChoices : TerminateParticipant(1, p)
    \/ \E p \in StateChoices : ActivateParticipant(1, p)
    \/ \E p \in HydSubjects, r, x \in BOOLEAN : GetById(1, p, r, x)
    \/ \E x \in BOOLEAN : SetRelations(1, x)
    \/ ComputeEffectiveRoles(1)

SpecHyd == HydInit /\ [][HydNext]_vars

(* ---------------------------------------------------------------------- *)
(* State specification: the state transitions of a few participants, as   *)
(* time passes                                                            *)
(* ---------------------------------------------------------------------- *)
StateSubjects == {1, 2, 6}

(* datetime.now(UTC) moves on *)
Tick ==
    /\ clock < MaxClock
    /\ clock' = clock + 1
    /\ UNCHANGED <<db, tx, obj, ret, st, chk, cache, run>>

StateNext ==
    \/ \E p \in StateSubjects : TerminateParticipant(1, p)
    \/ \E p \in StateSubjects : ActivateParticipant(1, p)
    \/ \E p \in StateSubjects, state \in ParticipantState \cup {NULL} :
            SetParticipantState(1, p, state, "set_participant_state")
    \/ Tick
    \/ Commit(1)
    \/ Rollback(1)

SpecState == Init /\ [][StateNext]_vars

(* ---------------------------------------------------------------------- *)
(* ParticipantRepository: create, add_user, add_role, add_org, update and  *)
(* exists, called from two sessions                                       *)
(* ---------------------------------------------------------------------- *)
NameChoices == {"newton", "CURIE"}

(* a name as typed and as stored *)
RoleNames == {"curie", "CURIE"}

DisplayChoices == {"Newton, Isaac", "Curie, Marie"}

UpdateSubjects == {3}

(* str.upper, on the names drawn *)
upper(v) ==
    CASE v = "newton" -> "NEWTON"
      [] v = "einstein" -> "EINSTEIN"
      [] v = "curie" -> "CURIE"
      [] v = "system2" -> "SYSTEM2"
      [] OTHER -> v

participants_ak1_off(store, t, n, self) == TRUE

(* UniqueConstraint("participant_type", "name"), for the row self *)
participants_ak1(store, t, n, self) ==
    \A i \in DOMAIN store.pati \ {self} :
        ~(store.pati[i].participant_type = t /\ store.pati[i].name = n)

(* UniqueConstraint("participant_type", "display_name"), for the row self *)
participants_ak2(store, t, d, self) ==
    \A i \in DOMAIN store.pati \ {self} :
        ~(store.pati[i].participant_type = t /\ store.pati[i].display_name = d)

InsertParticipant(store, row) ==
    [store EXCEPT !.pati = Append(store.pati, [row EXCEPT !.id = Len(store.pati) + 1])]

(* create: the name is uppercased, the row added and flushed; a flush the *)
(* constraints refuse raises IntegrityError and the unit of work is       *)
(* rolled back                                                            *)
CreateAccepted(store, t, n, d) ==
    /\ participants_ak1(store, t, n, 0)
    /\ participants_ak2(store, t, d, 0)

create_name_off(n) == n

(* create.name = create.name.upper() *)
create_name(n) == upper(n)

CreateParticipant(s, n, d, t, state, op) ==
    /\ CanWrite(s)
    /\ CreateAccepted(View(s), t, create_name(n), d) => Len(View(s).pati) < MaxPati
    /\ tx' = IF CreateAccepted(View(s), t, create_name(n), d)
             THEN Pending(s, InsertParticipant(View(s),
                        [Row(create_name(n), d, t, state) EXCEPT !.created_timestamp = clock]))
             ELSE session_rollback(s)
    /\ ret' = [op |-> op, session |-> s, name |-> create_name(n),
               outcome |-> IF CreateAccepted(View(s), t, create_name(n), d)
                           THEN "created" ELSE "IntegrityError"]
    /\ UNCHANGED <<db, obj, clock, st, chk, cache, run>>

(* create(ParticipantCreate(...)) without a state *)
Create(s, n, d, t) == CreateParticipant(s, n, d, t, NULL, "create")

(* add_user, add_role, add_org: state=None is passed, the validator makes *)
(* it ACTIVE                                                              *)
AddUser(s, n, d) == CreateParticipant(s, n, d, "HUMAN", "ACTIVE", "add_user")

AddRole(s, n, d) == CreateParticipant(s, n, d, "ROLE", "ACTIVE", "add_role")

AddOrg(s, n, d) == CreateParticipant(s, n, d, "ORG_UNIT", "ACTIVE", "add_org")

(* A ParticipantUpdate is held as the function from the fields that were  *)
(* set to their values, NULL for None. The fields of the class, as far as *)
(* the rows here have them, and one of its three relation lists:          *)
ParticipantUpdateFields ==
    {"name", "display_name", "description", "state", "update_count",
     "updated_by", "updated_timestamp", "roles"}

(* the columns declared without Optional *)
NotNullColumns == {"name", "display_name", "participant_type", "created_by"}

ValidUpdate_off(fields) == TRUE

(* extra = forbid, updated_by required, updated_timestamp a datetime *)
ValidUpdate(fields) ==
    /\ DOMAIN fields \subseteq ParticipantUpdateFields
    /\ "updated_by" \in DOMAIN fields
    /\ fields["updated_by"] # NULL
    /\ "updated_timestamp" \in DOMAIN fields => fields["updated_timestamp"] \in Nat

(* the validated ParticipantUpdate: to_uppercase on name and updated_by *)
ParticipantUpdate(fields) ==
    [f \in DOMAIN fields |->
        IF f \in {"name", "updated_by"} THEN upper(fields[f]) ELSE fields[f]]

modified_fields_unset(pati_update) == pati_update

(* model_dump(exclude_unset=True), with updated_timestamp added when it   *)
(* was not set                                                            *)
modified_fields(pati_update) ==
    [f \in DOMAIN pati_update \cup {"updated_timestamp"} |->
        IF f \in DOMAIN pati_update THEN pati_update[f] ELSE clock]

(* the payload of a caller that sets name and display_name, NULL here for *)
(* a field it leaves out                                                  *)
PatiUpdate(n, d) ==
    [f \in {"updated_by"} \cup (IF n = NULL THEN {} ELSE {"name"})
                          \cup (IF d = NULL THEN {} ELSE {"display_name"}) |->
        IF f = "name" THEN n ELSE IF f = "display_name" THEN d ELSE "einstein"]

UpdatedName(row, values) ==
    IF "name" \in DOMAIN values THEN values["name"] ELSE row.name

UpdatedDisplayName(row, values) ==
    IF "display_name" \in DOMAIN values THEN values["display_name"]
    ELSE row.display_name

(* update(ParticipantModel).where(id == id_).values(modified_fields) *)
UpdateRow_versioned(store, id, values) ==
    [store EXCEPT !.pati[id] =
        [c \in DOMAIN store.pati[id] |->
            IF c = "update_count" THEN store.pati[id][c] + 1
            ELSE IF c \in DOMAIN values THEN values[c] ELSE store.pati[id][c]]]

UpdateRow(store, id, values) ==
    [store EXCEPT !.pati[id] =
        [c \in DOMAIN store.pati[id] |->
            IF c \in DOMAIN values THEN values[c] ELSE store.pati[id][c]]]

(* the statement compiles (every key is a column) and the constraints of  *)
(* the table accept the row                                               *)
UpdateAccepted(store, id, values) ==
    /\ DOMAIN values \subseteq DOMAIN store.pati[id]
    /\ \A c \in DOMAIN values \cap NotNullColumns : values[c] # NULL
    /\ participants_ak1(store, store.pati[id].participant_type,
                        UpdatedName(store.pati[id], values), id)
    /\ participants_ak2(store, store.pati[id].participant_type,
                        UpdatedDisplayName(store.pati[id], values), id)

UpdateError(store, id, values) ==
    IF DOMAIN values \subseteq DOMAIN store.pati[id]
    THEN "IntegrityError" ELSE "CompileError"

(* update(id_, pati_update, raise_error_if_not_found): a payload the      *)
(* model refuses never reaches the repository; for an id that is not      *)
(* stored None is returned, or ParticipantNotFoundError raised; otherwise *)
(* the fields set are written, and a statement that fails raises and the  *)
(* unit of work is rolled back                                            *)
Update(s, id, fields) ==
    /\ CanWrite(s)
    /\ IF ~ValidUpdate(fields)
       THEN /\ tx' = tx
            /\ ret' = [op |-> "update", session |-> s, id |-> id, fields |-> fields,
                       outcome |-> "ValidationError"]
       ELSE IF id \notin DOMAIN View(s).pati
       THEN /\ tx' = tx
            /\ \E raise_error_if_not_found \in BOOLEAN :
                ret' = [op |-> "update", session |-> s, id |-> id, fields |-> fields,
                        raise_error_if_not_found |-> raise_error_if_not_found,
                        outcome |-> NotFoundOutcome(raise_error_if_not_found)]
       ELSE IF UpdateAccepted(View(s), id, modified_fields(ParticipantUpdate(fields)))
       THEN /\ tx' = Pending(s, UpdateRow(View(s), id,
                                   modified_fields(ParticipantUpdate(fields))))
            /\ ret' = [op |-> "update", session |-> s, id |-> id, fields |-> fields,
                       outcome |-> "updated"]
       ELSE /\ tx' = session_rollback(s)
            /\ ret' = [op |-> "update", session |-> s, id |-> id, fields |-> fields,
                       outcome |-> UpdateError(View(s), id,
                                       modified_fields(ParticipantUpdate(fields)))]
    /\ UNCHANGED <<db, obj, clock, st, chk, cache, run>>

(* ---------------------------------------------------------------------- *)
(* Field specification: one unit of work creates, updates and changes the *)
(* state of a few participants, as time passes                            *)
(* ---------------------------------------------------------------------- *)
(* the participants written to: EINSTEIN and the row the create adds,     *)
(* which is not stored before the create and after a rollback             *)
FieldSubjects == {2, Len(create_participants) + 1}

(* the ParticipantUpdate payloads of the callers *)
UpdateChoices ==
    {[updated_by |-> "einstein"],
     [name |-> "curie", display_name |-> "Curie, Marie", updated_by |-> "einstein"],
     [state |-> "TERMINATED", description |-> "physicist", updated_by |-> "einstein"],
     [state |-> NULL, description |-> NULL, updated_timestamp |-> 1,
      updated_by |-> "einstein"],
     [name |-> NULL, updated_by |-> "einstein"],
     [participant_type |-> "ROLE", updated_by |-> "einstein"],
     [roles |-> {}, updated_by |-> "einstein"]}

FieldEdge == <<2, 6, "GRANT">>

FieldNext ==
    \/ Create(1, "system2", "SYSTEM2", "SYSTEM")
    \/ \E id \in FieldSubjects, fields \in UpdateChoices : Update(1, id, fields)
    \/ \E id \in FieldSubjects : TerminateParticipant(1, id)
    \/ \E id \in FieldSubjects : ActivateParticipant(1, id)
    \/ \E id \in FieldSubjects :
            SetParticipantState(1, id, NULL, "set_participant_state")
    \/ AddRelation(1, FieldEdge)
    \/ \E f \in BOOLEAN : DeleteRelation(1, FieldEdge, f)
    \/ Tick
    \/ Rollback(1)

SpecFields == Init /\ [][FieldNext]_vars

(* the rows get_by_name / get_by_display_name select, by the column and   *)
(* the type, and the rows get_by_id selects, by the id alone              *)
Lookup(store, column, value, t) ==
    {i \in DOMAIN store.pati :
        IF column = "id" THEN store.pati[i].id = value
        ELSE /\ store.pati[i].participant_type = t
             /\ IF column = "name" THEN store.pati[i].name = value
                ELSE store.pati[i].display_name = value}

(* exists(column, value, participant_type): False, or the state of the    *)
(* participant found; one_or_none raises on more than one row             *)
exists(store, column, value, t) ==
    IF Lookup(store, column, value, t) = {} THEN "False"
    ELSE IF Cardinality(Lookup(store, column, value, t)) > 1
         THEN "MultipleResultsFound"
         ELSE validate_state(store.pati[CHOOSE i \in Lookup(store, column, value, t) : TRUE].state)

Exists(s, column, value, t) ==
    /\ chk' = [chk EXCEPT ![s] = [column |-> column, value |-> value,
                                  participant_type |-> t,
                                  result |-> exists(View(s), column, value, t)]]
    /\ ret' = [op |-> "exists", session |-> s,
               outcome |-> exists(View(s), column, value, t)]
    /\ UNCHANGED <<db, tx, obj, clock, st, cache, run>>

KeysNext ==
    \/ \E s \in Sessions, n \in NameChoices, d \in DisplayChoices :
            Create(s, n, d, "HUMAN")
    \/ \E s \in Sessions, n \in NameChoices, d \in DisplayChoices : AddUser(s, n, d)
    \/ \E s \in Sessions, n \in RoleNames : AddRole(s, n, "Curie, Marie")
    \/ \E s \in Sessions, n \in RoleNames : AddOrg(s, n, "Curie, Marie")
    \/ \E s \in Sessions, id \in UpdateSubjects,
          n \in NameChoices \cup {NULL}, d \in DisplayChoices \cup {NULL} :
            Update(s, id, PatiUpdate(n, d))
    \/ \E s \in Sessions : Exists(s, "name", "CURIE", "HUMAN")
    \/ \E s \in Sessions : Commit(s)
    \/ \E s \in Sessions : Rollback(s)

SpecKeys == Init /\ [][KeysNext]_vars

(* ---------------------------------------------------------------------- *)
(* The login path: check_user, the session state and the policy enforcer  *)
(* ---------------------------------------------------------------------- *)
UidChoices == {"einstein", "curie"}

QueryUserChoices == {NULL, "newton"}

(* job titles, as the characters of the string; <<>> is no title *)
TitleChoices == {<<>>, <<"V", "P">>, <<"D", "e", "v">>}

QueryTitleChoices == {<<>>, <<"V", "P">>}

(* the role hierarchies the policy file may hold: none, or ADMINISTRATOR  *)
(* has the role PUBLIC                                                    *)
PolicyChoices == {{}, {<<"ADMINISTRATOR", "PUBLIC">>}}

LoginEdges ==
    {<<2, 6, "GRANT">>, <<2, 7, "GRANT">>, <<2, 4, "MEMBER OF">>,
     <<4, 6, "GRANT">>, <<2, 3, "PROXY OF">>, <<3, 6, "GRANT">>}

(* str.lower, on the characters of the titles drawn *)
lower_char(c) ==
    CASE c = "V" -> "v"
      [] c = "P" -> "p"
      [] c = "D" -> "d"
      [] OTHER -> c

lower(title) == [i \in 1..Len(title) |-> lower_char(title[i])]

management_keywords ==
    {<<"m", "a", "n", "a", "g", "e", "r">>,
     <<"d", "i", "r", "e", "c", "t", "o", "r">>,
     <<"v", "p">>, <<"s", "v", "p">>,
     <<"c", "h", "i", "e", "f">>}

(* keyword in lower_title *)
contains(title, keyword) ==
    \E i \in 1..(Len(title) - Len(keyword) + 1) :
        SubSeq(title, i, i + Len(keyword) - 1) = keyword

user_is_manager(title) ==
    /\ title # <<>>
    /\ \E keyword \in management_keywords : contains(lower(title), keyword)

(* enforcer.get_roles_for_user, add_role_for_user, delete_role_for_user *)
get_roles_for_user(enforcer, username) ==
    {ur[2] : ur \in {x \in enforcer.users : x[1] = username}}

add_role_for_user(enforcer, username, role) ==
    [enforcer EXCEPT !.users = @ \cup {<<username, role>>}]

delete_role_for_user(enforcer, username, role) ==
    [enforcer EXCEPT !.users = @ \ {<<username, role>>}]

(* role_manager.get_roles(role): the roles the policy file gives the role *)
roles_of_role_none(enforcer, role) == {}

roles_of_role(enforcer, role) ==
    {g[2] : g \in {x \in enforcer.g : x[1] = role}}

(* get_all_roles(role, seen, role_manager): returns at once for a role    *)
(* already seen; else adds it to seen and calls itself for each of its    *)
(* roles in turn, each call working on the seen the one before left.      *)
(* The value is seen as the call leaves it.                               *)
RECURSIVE get_all_roles(_, _, _)
RECURSIVE for_each_role(_, _, _)
get_all_roles(enforcer, role, seen) ==
    IF role \in seen THEN seen
    ELSE for_each_role(enforcer, roles_of_role(enforcer, role), seen \cup {role})

(* for role in roles: get_all_roles(role, seen, role_manager) *)
for_each_role(enforcer, roles, seen) ==
    IF roles = {} THEN seen
    ELSE for_each_role(enforcer, roles \ {CHOOSE r \in roles : TRUE},
            get_all_roles(enforcer, CHOOSE r \in roles : TRUE, seen))

get_all_roles_of_roles(enforcer, roles) == for_each_role(enforcer, roles, {})

(* CurrentUser.get_from_session_state: the current user of the session,   *)
(* nothing when none is stored                                            *)
get_from_session_state(state) == state.current_user

(* CurrentUser.update_session_state: stores the user as current_user *)
update_session_state(state, current_user) ==
    [state EXCEPT !.current_user = current_user]

(* SessionUser(): no code stores roles under the key session_user *)
get_session_user == [username |-> "", roles |-> {}]

(* common.is_administrator: ADMINISTRATOR is among the roles of the       *)
(* current user, or among the roles the enforcer holds for username       *)
is_administrator(state, username) ==
    \/ "ADMINISTRATOR" \in state.current_user.roles
    \/ /\ username # ""
       /\ "ADMINISTRATOR" \in get_roles_for_user(state.policy_enforcer, username)

(* user_permissions.user_is_administrator *)
user_is_administrator(state, username) ==
    \/ "ADMINISTRATOR" \in get_session_user.roles
    \/ /\ (IF username # "" THEN username ELSE get_session_user.username) # ""
       /\ "ADMINISTRATOR" \in get_roles_for_user(state.policy_enforcer,
                IF username # "" THEN username ELSE get_session_user.username)

(* an administrator may fake the userid and the title by query parameter *)
LoginName(state, uid, query_user) ==
    IF is_administrator(state, upper(uid)) /\ query_user # NULL
    THEN upper(query_user) ELSE upper(uid)

LoginTitle(state, uid, title, query_title) ==
    IF is_administrator(state, upper(uid)) /\ query_title # <<>>
    THEN query_title ELSE title

(* get_by_name(name, participant_type, include_relations=True): no        *)
(* condition on the state of the row                                      *)
get_by_name(store, name, t) ==
    IF Lookup(store, "name", name, t) = {} THEN NoObj
    ELSE set_relations(store,
            NewParticipant(store, CHOOSE i \in Lookup(store, "name", name, t) : TRUE),
            FALSE)

HasRelations(pati) == pati.roles # {} \/ pati.org_units # {} \/ pati.proxy_of # {}

(* update_user_session_state: the roles of the current user are the       *)
(* result of compute_effective_roles, its effective_roles their closure   *)
(* under the role hierarchy                                               *)
update_user_session_state(state, store, pati) ==
    update_session_state(state,
        [username |-> pati.name,
         roles |-> IF HasRelations(pati)
                   THEN compute_effective_roles(store, pati) ELSE {},
         effective_roles |->
                   IF HasRelations(pati)
                   THEN get_all_roles_of_roles(state.policy_enforcer,
                            compute_effective_roles(store, pati))
                   ELSE {}])

add_roles_to_policy_enforcer(state, username, roles) ==
    [state EXCEPT !.policy_enforcer.users = @ \cup {<<username, r>> : r \in roles}]

initialize_manager_user_no_public(state, username) ==
    [update_session_state(state,
        [username |-> username, roles |-> {}, effective_roles |-> {}])
     EXCEPT !.must_register = TRUE]

initialize_manager_user(state, username) ==
    [update_session_state(state,
        [username |-> username, roles |-> {}, effective_roles |-> {"PUBLIC"}])
     EXCEPT !.must_register = TRUE]

clear_user_session(state) == [state EXCEPT !.current_user = NoUser]

(* the session is already that of the user: check_user returns at once *)
AlreadyCurrent(state, username) ==
    /\ get_from_session_state(state) # NoUser
    /\ username = get_from_session_state(state).username

(* check_user, for an identity whose displayName and email are those of   *)
(* the stored row (update_user_record then changes nothing): the session  *)
(* state it leaves                                                        *)
check_user(state, store, username, title) ==
    IF AlreadyCurrent(state, username) THEN state
    ELSE IF get_by_name(store, username, "HUMAN") # NoObj
    THEN add_roles_to_policy_enforcer(
            update_user_session_state(state, store, get_by_name(store, username, "HUMAN")),
            username,
            update_user_session_state(state, store,
                get_by_name(store, username, "HUMAN")).current_user.effective_roles)
    ELSE IF user_is_manager(title)
    THEN initialize_manager_user(state, username)
    ELSE clear_user_session(state)

(* the value check_user returns *)
check_user_value(state, store, username, title) ==
    IF \/ AlreadyCurrent(state, username)
       \/ get_by_name(store, username, "HUMAN") # NoObj
       \/ user_is_manager(title)
    THEN "True" ELSE "You are not authorized to login"

CheckUser(uid, title, query_user, query_title) ==
    /\ st' = check_user(st, db, LoginName(st, uid, query_user),
                        LoginTitle(st, uid, title, query_title))
    /\ ret' = [op |-> "check_user",
               username |-> LoginName(st, uid, query_user),
               outcome |-> check_user_value(st, db, LoginName(st, uid, query_user),
                                LoginTitle(st, uid, title, query_title))]
    /\ cache' = IF /\ ~AlreadyCurrent(st, LoginName(st, uid, query_user))
                   /\ get_by_name(db, LoginName(st, uid, query_user), "HUMAN") # NoObj
                THEN NoCache ELSE cache
    /\ UNCHANGED <<db, tx, obj, clock, chk, run>>

(* signout_callback: every key of the session state is deleted; the next  *)
(* enforcer is loaded from the policy file                                *)
SignoutCallback ==
    /\ st' = [NoSession EXCEPT !.policy_enforcer = NewEnforcer(st.policy_enforcer.g)]
    /\ ret' = [op |-> "signout_callback", outcome |-> "ok"]
    /\ cache' = NoCache
    /\ UNCHANGED <<db, tx, obj, clock, chk, run>>

(* role_checkbox_callback: the sidebar shows an administrator a checkbox  *)
(* for each of get_all_roles_of_roles(roles) but PUBLIC                   *)
RoleCheckboxCallback(role, value) ==
    /\ get_from_session_state(st) # NoUser
    /\ is_administrator(st, st.current_user.username)
    /\ role \in get_all_roles_of_roles(st.policy_enforcer, st.current_user.roles) \ {"PUBLIC"}
    /\ st' = [st EXCEPT !.policy_enforcer =
                IF value THEN add_role_for_user(@, st.current_user.username, role)
                ELSE delete_role_for_user(@, st.current_user.username, role)]
    /\ ret' = [op |-> "role_checkbox_callback", outcome |-> "ok"]
    /\ cache' = NoCache
    /\ UNCHANGED <<db, tx, obj, clock, chk, run>>

(* sync_enforcer_roles(username, effective_roles), for the current user *)
SyncEnforcerRoles ==
    /\ st.current_user.username # ""
    /\ st' = [st EXCEPT !.policy_enforcer.users =
                {x \in @ : x[1] # st.current_user.username}
                    \cup {<<st.current_user.username, r>> :
                            r \in st.current_user.effective_roles}]
    /\ ret' = [op |-> "sync_enforcer_roles", outcome |-> "ok"]
    /\ cache' = NoCache
    /\ UNCHANGED <<db, tx, obj, clock, chk, run>>

(* the committed tables a login can find: EINSTEIN in any state, and any  *)
(* edges add_relation and commit have stored                              *)
LoginStores ==
    {[pati |-> [create_participants EXCEPT ![2].state = s2],
      rel |-> {<<e[1], e[2], e[3], 1>> : e \in E}] :
        s2 \in ParticipantState \cup {NULL},
        E \in {X \in SUBSET LoginEdges : Cardinality(X) <= MaxRel}}

LoginInit ==
    /\ db \in LoginStores
    /\ tx = [s \in Sessions |-> <<>>]
    /\ obj = NoObj
    /\ ret = [op |-> "init", outcome |-> "ok"]
    /\ clock = 1
    /\ st \in {[NoSession EXCEPT !.policy_enforcer = NewEnforcer(g)] : g \in PolicyChoices}
    /\ chk = [s \in Sessions |-> NoCheck]
    /\ cache = NoCache
    /\ run = Idle

LoginNext ==
    \/ \E uid \in UidChoices, title \in TitleChoices,
          query_user \in QueryUserChoices, query_title \in QueryTitleChoices :
            CheckUser(uid, title, query_user, query_title)
    \/ SignoutCallback
    \/ \E role \in {"ADMINISTRATOR", "PUBLIC"}, value \in BOOLEAN :
            RoleCheckboxCallback(role, value)
    \/ SyncEnforcerRoles

SpecLogin == LoginInit /\ [][LoginNext]_vars

(* ---------------------------------------------------------------------- *)
(* check_access and its cache                                             *)
(* ---------------------------------------------------------------------- *)
(* the rules p of the policy file: ADMINISTRATOR may read the users *)
policy_p == {<<"ADMINISTRATOR", "users", "read">>}

(* enforcer.enforce(username, object_, action): a role of the user, or a  *)
(* role of such a role, has a rule for the object and the action          *)
enforce(enforcer, username, object_, action) ==
    \E r \in get_all_roles_of_roles(enforcer, get_roles_for_user(enforcer, username)) :
        <<r, object_, action>> \in policy_p

(* st.cache_data keys a result of check_access by the arguments of the    *)
(* call, for every browser session of the process                         *)
Cached(username, object_, action) ==
    {c \in cache : c.username = username /\ c.object_ = object_ /\ c.action = action}

(* the enforcer of a second browser session of the same user, as its      *)
(* check_user left it                                                     *)
PeerEnforcer ==
    check_user([NoSession EXCEPT !.policy_enforcer = NewEnforcer(st.policy_enforcer.g)],
               db, "EINSTEIN", <<>>).policy_enforcer

(* get_policy_enforcer() in browser session s *)
get_policy_enforcer(s) == IF s = 1 THEN st.policy_enforcer ELSE PeerEnforcer

(* check_access(username, object_, action) in browser session s: the      *)
(* cached result if there is one, else the result of enforce, which is    *)
(* cached; roles records the roles session 1 held for the user when the   *)
(* result was computed                                                    *)
CheckAccess(s, username, object_, action) ==
    /\ s = 1 => run.at = "idle"
    /\ IF Cached(username, object_, action) # {}
       THEN /\ cache' = cache
            /\ \E c \in Cached(username, object_, action) :
                    ret' = [op |-> "check_access", session |-> s,
                            username |-> username, cached |-> TRUE,
                            roles |-> c.roles, outcome |-> c.value]
       ELSE /\ cache' = cache \cup
                    {[username |-> username, object_ |-> object_, action |-> action,
                      value |-> enforce(get_policy_enforcer(s), username, object_, action),
                      roles |-> get_roles_for_user(st.policy_enforcer, username)]}
            /\ ret' = [op |-> "check_access", session |-> s,
                       username |-> username, cached |-> FALSE,
                       roles |-> get_roles_for_user(st.policy_enforcer, username),
                       outcome |-> enforce(get_policy_enforcer(s), username, object_, action)]
    /\ UNCHANGED <<db, tx, obj, clock, st, chk, run>>

(* an entry older than POLICY_TTL is dropped *)
CacheExpire ==
    /\ cache # NoCache
    /\ \E c \in cache : cache' = cache \ {c}
    /\ ret' = [op |-> "expire", outcome |-> "ok"]
    /\ UNCHANGED <<db, tx, obj, clock, st, chk, run>>

(* check_user, statement by statement where another browser session can   *)
(* run in between: through update_user_session_state, which clears the    *)
(* cache ...                                                              *)
CheckUserFound(uid) ==
    /\ run.at = "idle"
    /\ ~AlreadyCurrent(st, LoginName(st, uid, NULL))
    /\ get_by_name(db, LoginName(st, uid, NULL), "HUMAN") # NoObj
    /\ cache' = NoCache
    /\ st' = update_user_session_state(st, db,
                get_by_name(db, LoginName(st, uid, NULL), "HUMAN"))
    /\ run' = [at |-> "check_user", username |-> LoginName(st, uid, NULL)]
    /\ ret' = [op |-> "update_user_session_state", outcome |-> "ok"]
    /\ UNCHANGED <<db, tx, obj, clock, chk>>

(* ... and from there to its return, through add_roles_to_policy_enforcer *)
CheckUserAddRoles ==
    /\ run.at = "check_user"
    /\ st' = add_roles_to_policy_enforcer(st, run.username,
                st.current_user.effective_roles)
    /\ run' = Idle
    /\ ret' = [op |-> "check_user", username |-> run.username, outcome |-> "True"]
    /\ UNCHANGED <<db, tx, obj, clock, chk, cache>>

(* role_checkbox_callback, likewise: check_access.clear() ...             *)
RoleCheckboxClear(role, value) ==
    /\ run.at = "idle"
    /\ get_from_session_state(st) # NoUser
    /\ is_administrator(st, st.current_user.username)
    /\ role \in get_all_roles_of_roles(st.policy_enforcer, st.current_user.roles) \ {"PUBLIC"}
    /\ cache' = NoCache
    /\ run' = [at |-> "role_checkbox_callback", role |-> role, value |-> value]
    /\ ret' = [op |-> "clear", outcome |-> "ok"]
    /\ UNCHANGED <<db, tx, obj, clock, st, chk>>

(* ... then add_role_for_user or delete_role_for_user                     *)
RoleCheckboxChange ==
    /\ run.at = "role_checkbox_callback"
    /\ st' = [st EXCEPT !.policy_enforcer =
                IF run.value THEN add_role_for_user(@, st.current_user.username, run.role)
                ELSE delete_role_for_user(@, st.current_user.username, run.role)]
    /\ run' = Idle
    /\ ret' = [op |-> "role_checkbox_callback", outcome |-> "ok"]
    /\ UNCHANGED <<db, tx, obj, clock, chk, cache>>

(* two browser sessions of EINSTEIN in one process: the first logs in,    *)
(* ticks role checkboxes and signs out, both render pages                 *)
CacheNext ==
    \/ CheckUserFound("einstein")
    \/ CheckUserAddRoles
    \/ \E role \in {"ADMINISTRATOR", "PUBLIC"}, value \in BOOLEAN :
            RoleCheckboxClear(role, value)
    \/ RoleCheckboxChange
    \/ run.at = "idle" /\ SyncEnforcerRoles
    \/ run.at = "idle" /\ SignoutCallback
    \/ \E s \in Sessions : CheckAccess(s, "EINSTEIN", "users", "read")
    \/ CacheExpire

SpecCache == LoginInit /\ [][CacheNext]_vars

(* ---------------------------------------------------------------------- *)
(* ParticipantRepository: the queries                                     *)
(* ---------------------------------------------------------------------- *)
(* get_by_display_name(display_name, participant_type,                    *)
(* include_relations=True)                                                *)
get_by_display_name(store, display_name, t) ==
    IF Lookup(store, "display_name", display_name, t) = {} THEN NoObj
    ELSE set_relations(store,
            NewParticipant(store,
                CHOOSE i \in Lookup(store, "display_name", display_name, t) : TRUE),
            FALSE)

GetByName(s, name, t) ==
    /\ IF Lookup(View(s), "name", name, t) = {}
       THEN \E raise_error_if_not_found \in BOOLEAN :
                NotFound("get_by_name", raise_error_if_not_found)
       ELSE /\ obj' = get_by_name(View(s), name, t)
            /\ ret' = [op |-> "get_by_name", outcome |-> "ok"]
    /\ UNCHANGED <<db, tx, clock, st, chk, cache, run>>

GetByDisplayName(s, display_name, t) ==
    /\ IF Lookup(View(s), "display_name", display_name, t) = {}
       THEN \E raise_error_if_not_found \in BOOLEAN :
                NotFound("get_by_display_name", raise_error_if_not_found)
       ELSE /\ obj' = get_by_display_name(View(s), display_name, t)
            /\ ret' = [op |-> "get_by_display_name", outcome |-> "ok"]
    /\ UNCHANGED <<db, tx, clock, st, chk, cache, run>>

(* the display names of the model in the order of the database's          *)
(* collation, which compares them byte by byte                            *)
Collation ==
    <<"Administrator", "Aristotle", "Curie, Marie", "Einstein, Albert",
      "Mathematicians", "Newton, Isaac", "PUBLIC", "SYSTEM", "SYSTEM2",
      "Scientists">>

sort_key(display_name) == CHOOSE k \in DOMAIN Collation : Collation[k] = display_name

(* .order_by(ParticipantModel.display_name) *)
RECURSIVE order_by(_, _)
order_by(store, ids) ==
    IF ids = {} THEN <<>>
    ELSE <<CHOOSE i \in ids : \A j \in ids :
                sort_key(store.pati[i].display_name) <= sort_key(store.pati[j].display_name)>>
         \o order_by(store, ids \ {CHOOSE i \in ids : \A j \in ids :
                sort_key(store.pati[i].display_name) <= sort_key(store.pati[j].display_name)})

(* the rows a statement without order_by returns, in any order *)
Unordered(ids) ==
    {q \in [1..Cardinality(ids) -> ids] : \A i, j \in DOMAIN q : q[i] = q[j] => i = j}

(* where participant_type == participant_type and                         *)
(* coalesce(None if only_active else "ACTIVE", state, "ACTIVE") == "ACTIVE" *)
Selected(store, t, only_active) ==
    {i \in DOMAIN store.pati :
        /\ store.pati[i].participant_type = t
        /\ (IF only_active THEN validate_state(store.pati[i].state) ELSE "ACTIVE") = "ACTIVE"}

(* get_all of participant_repo.py: the ids of the Participants returned *)
get_all(store, t, only_active) == order_by(store, Selected(store, t, only_active))

(* get_all of participant.py, the class the package exports: order_by is  *)
(* part of the statement for only_active alone                            *)
participant_get_all(store, t, only_active) ==
    IF only_active THEN {order_by(store, Selected(store, t, TRUE))}
    ELSE Unordered(Selected(store, t, FALSE))

GetAll(s, t, only_active) ==
    /\ ret' = [op |-> "get_all", session |-> s, participant_type |-> t,
               only_active |-> only_active, outcome |-> get_all(View(s), t, only_active)]
    /\ UNCHANGED <<db, tx, obj, clock, st, chk, cache, run>>

ParticipantGetAll(s, t, only_active) ==
    /\ \E result \in participant_get_all(View(s), t, only_active) :
        ret' = [op |-> "get_all", session |-> s, participant_type |-> t,
                only_active |-> only_active, outcome |-> result]
    /\ UNCHANGED <<db, tx, obj, clock, st, chk, cache, run>>

(* ---------------------------------------------------------------------- *)
(* Query specification: one unit of work adds a user, renames and changes *)
(* states, and asks                                                       *)
(* ---------------------------------------------------------------------- *)
QuerySubjects == {2, Len(create_participants) + 1}

QueryUpdate == [display_name |-> "Aristotle", updated_by |-> "einstein"]

(* <<column, value, participant_type>> of the calls of exists *)
ExistsChoices ==
    {<<"id", 2, "HUMAN">>, <<"id", 2, "ROLE">>,
     <<"name", "EINSTEIN", "HUMAN">>, <<"display_name", "Curie, Marie", "HUMAN">>}

QueryNext ==
    \/ AddUser(1, "curie", "Curie, Marie")
    \/ \E id \in QuerySubjects : TerminateParticipant(1, id)
    \/ \E id \in QuerySubjects : ActivateParticipant(1, id)
    \/ \E id \in QuerySubjects :
            SetParticipantState(1, id, NULL, "set_participant_state")
    \/ \E id \in QuerySubjects : Update(1, id, QueryUpdate)
    \/ AddRelation(1, FieldEdge)
    \/ \E c \in ExistsChoices : Exists(1, c[1], c[2], c[3])
    \/ \E only_active \in BOOLEAN : GetAll(1, "HUMAN", only_active)
    \/ \E only_active \in BOOLEAN : ParticipantGetAll(1, "HUMAN", only_active)
    \/ \E id \in QuerySubjects : GetById(1, id, TRUE, FALSE)
    \/ GetByName(1, "CURIE", "HUMAN")
    \/ GetByDisplayName(1, "Curie, Marie", "HUMAN")
    \/ Rollback(1)

SpecQuery == Init /\ [][QueryNext]_vars

(* ---------------------------------------------------------------------- *)
(* Claims on the relation table                                           *)
(* ---------------------------------------------------------------------- *)
UniqueEdges(store) ==
    \A r1, r2 \in store.rel : Edge(r1) = Edge(r2) => r1 = r2

IsAdd(s, e) == AddRelation(s, e) \/ AddReverseRelation(s, e)

(* C1, as stated: no two rows agree on (pati1_id, pati2_id,               *)
(* relation_type), and after an add_relation of a triple that is already  *)
(* stored get(a.id, (type,)) returns exactly one entry for that target.   *)
C1_AsStated ==
    /\ [](UniqueEdges(db) /\ UniqueEdges(View(1)))
    /\ [][\A e \in CrudEdges :
            (IsAdd(1, e) /\ RowsOf(View(1), e) # {}) => GetEntries(View(1), e)' = 1]_vars

(* C1, amended: no two rows agree on (pati1_id, pati2_id, relation_type); *)
(* an add of a triple that is already stored adds no row and rolls the    *)
(* unit of work back, so that afterwards get(a.id, (type,)) returns at    *)
(* most one entry for that target, and one only if the edge is part of    *)
(* the last committed state.                                              *)
C1_EdgeUniqueness ==
    /\ [](UniqueEdges(db) /\ UniqueEdges(View(1)))
    /\ [][\A e \in CrudEdges :
            (IsAdd(1, e) /\ RowsOf(View(1), e) # {}) =>
                /\ tx'[1] = <<>>
                /\ Cardinality(RowsOf(View(1), e)') <= 1
                /\ GetEntries(View(1), e)' <= 1
                /\ (GetEntries(View(1), e)' = 1 => RowsOf(db, e) # {})]_vars

(* a duplicate add_relation has been refused while the edge was committed *)
C1_Witness ==
    /\ ret.op = "add_relation"
    /\ ret.outcome = "IntegrityError"
    /\ \E e \in CrudEdges : GetEntries(View(1), e) = 1

(* ---------------------------------------------------------------------- *)
(* Claims on the state transitions                                        *)
(* ---------------------------------------------------------------------- *)
IsStateOp(s, id) ==
    \/ TerminateParticipant(s, id)
    \/ ActivateParticipant(s, id)
    \/ \E state \in ParticipantState \cup {NULL} :
            SetParticipantState(s, id, state, "set_participant_state")

(* C10: terminate_participant, activate_participant and                   *)
(* set_participant_state on the participant named SYSTEM return the       *)
(* participant with the state it was passed with and leave the stored row *)
(* as it was: neither the state nor the timestamp changes.                *)
C10_SystemImmutable ==
    [][\A id \in StateSubjects :
        (IsStateOp(1, id) /\ View(1).pati[id].name = "SYSTEM") =>
            /\ View(1)' = View(1)
            /\ db' = db
            /\ ret'.state = validate_state(View(1).pati[id].state)]_vars

(* a state operation has been called on SYSTEM after other rows changed *)
C10_Witness ==
    /\ ret.op = "terminate_participant"
    /\ ret.state = "ACTIVE"
    /\ View(1).pati[1].state = NULL
    /\ View(1).pati[2].state = "TERMINATED"
    /\ View(1).pati[1].updated_timestamp = 0

(* ---------------------------------------------------------------------- *)
(* Claims on hydration and effective roles                                *)
(* ---------------------------------------------------------------------- *)
(* the object the caller holds carries the lists set_relations yields *)
Hydrated(s) ==
    /\ obj # NoObj
    /\ obj.roles = set_relations(View(s), NewParticipant(View(s), obj.id), FALSE).roles
    /\ obj.org_units = set_relations(View(s), NewParticipant(View(s), obj.id), FALSE).org_units
    /\ obj.proxy_of = set_relations(View(s), NewParticipant(View(s), obj.id), FALSE).proxy_of

MemberIds(participants) == {p.id : p \in participants}

(* the names of the targets of the stored GRANT edges leaving ids *)
GrantTargets(store, ids) ==
    {store.pati[r[2]].name : r \in {x \in store.rel : x[3] = "GRANT" /\ x[1] \in ids}}

OneHopRoles(store, o) ==
    {role.name : role \in o.roles}
        \cup GrantTargets(store, MemberIds(o.org_units))
        \cup GrantTargets(store, MemberIds(o.proxy_of))

(* the org units and proxy targets of the object's org units and proxy   *)
(* targets                                                               *)
SecondHopIds(store, o) ==
    {r[2] : r \in {x \in store.rel :
        /\ x[1] \in MemberIds(o.org_units) \cup MemberIds(o.proxy_of)
        /\ x[3] \in {"MEMBER OF", "PROXY OF"}}}

TwoHopOnlyRoles(store, o) ==
    GrantTargets(store, SecondHopIds(store, o)) \ OneHopRoles(store, o)

(* C3: for a participant hydrated by set_relations,                       *)
(* compute_effective_roles stores in effective_roles exactly the names of *)
(* its roles, of the GRANT targets of its org units and of the GRANT      *)
(* targets of the participants it is proxy of; a role reachable only      *)
(* through two hops is not in the result.                                 *)
C3_OneHopUnion ==
    [][(ComputeEffectiveRoles(1) /\ Hydrated(1)) =>
        /\ obj'.effective_roles = OneHopRoles(View(1), obj)
        /\ obj'.effective_roles \cap TwoHopOnlyRoles(View(1), obj) = {}
        /\ obj'.roles = obj.roles
        /\ obj'.org_units = obj.org_units
        /\ obj'.proxy_of = obj.proxy_of]_vars

(* effective roles were computed for a participant that inherits a role   *)
(* from an org unit, while another role is two hops away                  *)
C3_Witness ==
    /\ ret.op = "compute_effective_roles"
    /\ Hydrated(1)
    /\ obj.roles = {}
    /\ obj.org_units # {}
    /\ obj.effective_roles # {}
    /\ obj.effective_roles = OneHopRoles(View(1), obj)
    /\ TwoHopOnlyRoles(View(1), obj) # {}

TerminatedRoleNames(store) ==
    {store.pati[id].name : id \in {x \in Ids :
        /\ store.pati[x].participant_type = "ROLE"
        /\ store.pati[x].state = "TERMINATED"}}

(* C4: for a participant hydrated by set_relations,                       *)
(* compute_effective_roles never yields the name of a TERMINATED role,    *)
(* be it granted directly, to an org unit or to a proxy target.           *)
C4_NoTerminatedRole ==
    [][(ComputeEffectiveRoles(1) /\ Hydrated(1)) =>
        obj'.effective_roles \cap TerminatedRoleNames(View(1)) = {}]_vars

(* the targets of the stored edges of one type leaving id, split by the  *)
(* state of the target                                                   *)
StoredTargets(store, id, t, states) ==
    {Related(store, r[2]) : r \in {x \in store.rel :
        x[1] = id /\ x[3] = t /\ RelatedState(store, x[2]) \in states}}

IsHydration(s) ==
    \/ \E x \in BOOLEAN : SetRelations(s, x)
    \/ \E p \in HydSubjects, x \in BOOLEAN : GetById(s, p, TRUE, x)

IsStateChange(s) ==
    \E p \in StateChoices : TerminateParticipant(s, p) \/ ActivateParticipant(s, p)

(* C5: after set_relations, or get_by_id with include_relations, the      *)
(* roles, org_units and proxy_of of the participant hold every target of  *)
(* its edges that is ACTIVE and none that is TERMINATED; a state change   *)
(* removes no edge row.                                                   *)
C5_StateFilteredTraversal ==
    [][/\ IsHydration(1) =>
            /\ obj'.roles = StoredTargets(View(1), obj'.id, "GRANT", {"ACTIVE"})
            /\ obj'.org_units = StoredTargets(View(1), obj'.id, "MEMBER OF", {"ACTIVE"})
            /\ obj'.proxy_of = StoredTargets(View(1), obj'.id, "PROXY OF", {"ACTIVE"})
       /\ IsStateChange(1) => View(1)'.rel = View(1).rel]_vars

(* C6: get(participant_id, relation_types) returns exactly the stored     *)
(* edges leaving participant_id, of one of the types, whose target is not *)
(* TERMINATED.                                                            *)
C6_GetFiltersTarget ==
    \A p \in Ids, types \in SUBSET ParticipantRelationType :
        get(View(1), p, types) =
            {r \in View(1).rel :
                r[1] = p /\ r[3] \in types /\ NotTerminated(View(1), r[2])}

(* ---------------------------------------------------------------------- *)
(* Claims on the natural keys                                             *)
(* ---------------------------------------------------------------------- *)
NaturalKeysUnique(store) ==
    \A i, j \in DOMAIN store.pati :
        (i # j /\ store.pati[i].participant_type = store.pati[j].participant_type) =>
            /\ store.pati[i].name # store.pati[j].name
            /\ store.pati[i].display_name # store.pati[j].display_name

(* another row than self holds the name or the display name in type t *)
KeyTaken(store, t, n, d, self) ==
    \E i \in DOMAIN store.pati \ {self} :
        /\ store.pati[i].participant_type = t
        /\ (store.pati[i].name = n \/ store.pati[i].display_name = d)

KeysUniqueEverywhere ==
    /\ NaturalKeysUnique(db)
    /\ \A s \in Sessions : NaturalKeysUnique(View(s))

(* the call of session s raised IntegrityError and nothing of its unit of *)
(* work is stored                                                        *)
Refused(s) ==
    /\ ret.outcome = "IntegrityError"
    /\ tx[s] = <<>>
    /\ View(s) = db

(* C2: under create, add_user, add_role, add_org and update from two      *)
(* sessions that pre-check with exists, no two participants of one type   *)
(* share a name or a display name, in the committed table and in what     *)
(* each session sees; a create or update that would make a second one     *)
(* fails with IntegrityError and stores nothing.                          *)
(* the inputs a step that returned ret' can have had *)
CallsOf(r) ==
    {c \in Sessions \X NameChoices \X DisplayChoices :
        c[1] = r.session /\ upper(c[2]) = r.name}

DirectAdministrator(store, username) ==
    \E r \in store.rel :
        /\ r[3] = "GRANT"
        /\ store.pati[r[1]].participant_type = "HUMAN"
        /\ store.pati[r[1]].name = username
        /\ store.pati[r[2]].name = "ADMINISTRATOR"

(* C7: is_administrator and user_is_administrator report the current user *)
(* as administrator only if a GRANT edge leads from the user to the role  *)
(* ADMINISTRATOR, after any sequence of logins, signouts and role         *)
(* synchronisations.                                                      *)
C7_DirectAdminOnly ==
    (/\ get_from_session_state(st) # NoUser
     /\ \/ is_administrator(st, st.current_user.username)
        \/ user_is_administrator(st, st.current_user.username))
        => DirectAdministrator(db, st.current_user.username)

(* the state of the HUMAN row of the name, "none" without such a row *)
HumanState(store, name) ==
    IF Lookup(store, "name", name, "HUMAN") = {} THEN "none"
    ELSE store.pati[CHOOSE i \in Lookup(store, "name", name, "HUMAN") : TRUE].state

(* C8: check_user, called in a session without a current user for an      *)
(* identity whose HUMAN participant is TERMINATED, does not return True    *)
(* and stores no current user for it.                                      *)
C8_TerminatedNotAuthenticated ==
    [][(/\ ret'.op = "check_user"
        /\ get_from_session_state(st) = NoUser
        /\ HumanState(db, ret'.username) = "TERMINATED") =>
        \A uid \in UidChoices, title \in TitleChoices,
           query_user \in QueryUserChoices, query_title \in QueryTitleChoices :
            (/\ LoginName(st, uid, query_user) = upper(uid)
             /\ upper(uid) = ret'.username
             /\ CheckUser(uid, title, query_user, query_title)) =>
                /\ ret'.outcome # "True"
                /\ st'.current_user.username # upper(uid)]_vars

(* C9: when check_user finds no HUMAN participant for the identity, a     *)
(* title that matches the manager keywords sets must_register, stores a   *)
(* current user without roles whose effective roles are {"PUBLIC"} and    *)
(* returns True; any other title clears the current user, returns the     *)
(* not-authorized message and leaves the enforcer as it was.              *)
C9_UnknownIdentity ==
    [][(/\ ret'.op = "check_user"
        /\ ~AlreadyCurrent(st, ret'.username)
        /\ HumanState(db, ret'.username) = "none") =>
        \A uid \in UidChoices, title \in TitleChoices,
           query_user \in QueryUserChoices, query_title \in QueryTitleChoices :
            (/\ LoginName(st, uid, query_user) = ret'.username
             /\ CheckUser(uid, title, query_user, query_title)) =>
                IF user_is_manager(LoginTitle(st, uid, title, query_title))
                THEN /\ st'.must_register
                     /\ st'.current_user =
                            [username |-> LoginName(st, uid, query_user),
                             roles |-> {}, effective_roles |-> {"PUBLIC"}]
                     /\ ret'.outcome = "True"
                ELSE /\ st'.current_user = NoUser
                     /\ ret'.outcome = "You are not authorized to login"
                     /\ st'.policy_enforcer = st.policy_enforcer]_vars

(* an identity without participant was let in as a manager, in a session  *)
(* whose enforcer still holds the roles of an earlier user                *)
C9_Witness ==
    /\ ret.op = "check_user"
    /\ ret.username = "CURIE"
    /\ ret.outcome = "True"
    /\ st.must_register
    /\ st.current_user.username = "CURIE"
    /\ st.current_user.roles = {}
    /\ st.current_user.effective_roles = {"PUBLIC"}
    /\ st.policy_enforcer.users # {}
    /\ get_roles_for_user(st.policy_enforcer, "CURIE") = {}

(* ---------------------------------------------------------------------- *)
(* Claims on the columns of a participant                                 *)
(* ---------------------------------------------------------------------- *)
IsUpdate(s, id) == \E fields \in UpdateChoices : Update(s, id, fields)

(* the row id is stored before and after the step *)
Kept(s, id) == id \in DOMAIN View(s).pati /\ id \in DOMAIN View(s)'.pati

(* C11: no terminate_participant, activate_participant,                   *)
(* set_participant_state or update changes the stored state of a          *)
(* participant whose participant_type is SYSTEM.                          *)
C11_SystemTypeImmutable ==
    [][\A id \in FieldSubjects :
        (/\ IsStateOp(1, id) \/ IsUpdate(1, id)
         /\ Kept(1, id)
         /\ View(1).pati[id].participant_type = "SYSTEM") =>
            View(1)'.pati[id].state = View(1).pati[id].state]_vars

(* C12: as long as a participant is stored, no update, state operation or *)
(* relation operation changes its id, participant_type, created_by or     *)
(* created_timestamp, the id being the number of the row; an update whose *)
(* payload names participant_type is rejected with a validation error and *)
(* writes nothing.                                                        *)
C12_ImmutableColumns ==
    /\ [][\A i \in DOMAIN View(1).pati \cap DOMAIN View(1)'.pati :
            /\ View(1)'.pati[i].id = i
            /\ View(1)'.pati[i].id = View(1).pati[i].id
            /\ View(1)'.pati[i].participant_type = View(1).pati[i].participant_type
            /\ View(1)'.pati[i].created_by = View(1).pati[i].created_by
            /\ View(1)'.pati[i].created_timestamp = View(1).pati[i].created_timestamp]_vars
    /\ [][(/\ ret'.op = "update"
           /\ "participant_type" \in DOMAIN ret'.fields
           /\ Update(1, ret'.id, ret'.fields)) =>
            /\ ret'.outcome = "ValidationError"
            /\ View(1)' = View(1)]_vars

(* a payload naming participant_type has been rejected after the row of   *)
(* EINSTEIN was renamed and the second SYSTEM participant created later   *)
C12_Witness ==
    /\ ret.op = "update"
    /\ ret.outcome = "ValidationError"
    /\ Len(View(1).pati) = Len(create_participants) + 1
    /\ View(1).pati[Len(create_participants) + 1].created_timestamp = 2
    /\ View(1).pati[2].name = "CURIE"
    /\ View(1).pati[2].state = "TERMINATED"
    /\ View(1).pati[2].created_timestamp = 0

(* C13: an update that is carried out writes, on the row of the id, the   *)
(* validated value of every field set in the payload (NULL for a field    *)
(* set to None), updated_by among them, and updated_timestamp (the time   *)
(* of the call unless the payload sets it); every other column of the     *)
(* row, every other row, the relation rows and the committed state are    *)
(* unchanged.                                                             *)
C13_PartialUpdate ==
    [][(/\ ret'.op = "update"
        /\ ret'.outcome = "updated"
        /\ Update(1, ret'.id, ret'.fields)) =>
        \A id \in {ret'.id}, fields \in {ret'.fields} :
            /\ "updated_by" \in DOMAIN fields
            /\ DOMAIN View(1)'.pati = DOMAIN View(1).pati
            /\ \A c \in DOMAIN View(1).pati[id] :
                View(1)'.pati[id][c] =
                    IF c \in DOMAIN fields THEN ParticipantUpdate(fields)[c]
                    ELSE IF c = "updated_timestamp" THEN clock
                    ELSE View(1).pati[id][c]
            /\ \A j \in DOMAIN View(1).pati \ {id} :
                View(1)'.pati[j] = View(1).pati[j]
            /\ View(1)'.rel = View(1).rel
            /\ db' = db]_vars

(* the last call, after the create at time 2, was an update of EINSTEIN   *)
(* that set state and description to None and supplied the timestamp 1,   *)
(* with the GRANT edge of EINSTEIN pending                                *)
C13_Witness ==
    /\ ret.op = "update"
    /\ ret.outcome = "updated"
    /\ ret.id = 2
    /\ "description" \in DOMAIN ret.fields
    /\ ret.fields["description"] = NULL
    /\ clock = 2
    /\ Len(View(1).pati) = Len(create_participants) + 1
    /\ View(1).pati[Len(create_participants) + 1].created_timestamp = 2
    /\ View(1).pati[Len(create_participants) + 1].updated_by = NULL
    /\ View(1).pati[2].updated_by = "EINSTEIN"
    /\ View(1).pati[2].updated_timestamp = 1
    /\ View(1).pati[2].state = NULL
    /\ View(1).pati[2].description = NULL
    /\ View(1).pati[2].name = "CURIE"
    /\ View(1).rel # {}

(* C14: every update, set_participant_state, terminate_participant and    *)
(* activate_participant that changes a participant row leaves the row     *)
(* with updated_timestamp and updated_by set.                             *)
C14_StampsBoth ==
    [][\A id \in FieldSubjects :
        (/\ IsStateOp(1, id) \/ IsUpdate(1, id)
         /\ Kept(1, id)
         /\ View(1)'.pati[id] # View(1).pati[id]) =>
            /\ View(1)'.pati[id].updated_timestamp # 0
            /\ View(1)'.pati[id].updated_by # NULL]_vars

(* ---------------------------------------------------------------------- *)
(* Claims on the normalisation of names                                   *)
(* ---------------------------------------------------------------------- *)
AllUppercase(store) ==
    \A i \in DOMAIN store.pati : upper(store.pati[i].name) = store.pati[i].name

(* the row the last create of session s added *)
Created(s) == View(s).pati[Len(View(s).pati)]

(* the row was stored under the uppercase of n, which is what was         *)
(* returned and what get_by_name finds                                    *)
StoredAs(s, n, t) ==
    /\ Created(s).name = upper(n)
    /\ Created(s).participant_type = t
    /\ ret.name = upper(n)
    /\ Lookup(View(s), "name", upper(n), t) = {Len(View(s).pati)}
    /\ get_by_name(View(s), upper(n), t).id = Len(View(s).pati)

(* C15: a create, add_user, add_role or add_org with the name n, typed in *)
(* lowercase or in uppercase, stores and returns upper(n), and            *)
(* get_by_name(upper(n), type) finds that participant; an update that     *)
(* sets the name stores its uppercase; every stored name is uppercase.    *)
C15_NameNormalization ==
    /\ [](AllUppercase(db) /\ \A s \in Sessions : AllUppercase(View(s)))
    /\ [][(ret'.op = "create" /\ ret'.outcome = "created") =>
            \A s \in {x \in Sessions : x = ret'.session},
               n \in NameChoices, d \in DisplayChoices :
                Create(s, n, d, "HUMAN") => StoredAs(s, n, "HUMAN")']_vars
    /\ [][(ret'.op = "add_user" /\ ret'.outcome = "created") =>
            \A s \in {x \in Sessions : x = ret'.session},
               n \in NameChoices, d \in DisplayChoices :
                AddUser(s, n, d) => StoredAs(s, n, "HUMAN")']_vars
    /\ [][(ret'.op = "add_role" /\ ret'.outcome = "created") =>
            \A s \in {x \in Sessions : x = ret'.session}, n \in RoleNames :
                AddRole(s, n, "Curie, Marie") =>
                    (StoredAs(s, n, "ROLE") /\ Created(s).name = "CURIE")']_vars
    /\ [][(ret'.op = "add_org" /\ ret'.outcome = "created") =>
            \A s \in {x \in Sessions : x = ret'.session}, n \in RoleNames :
                AddOrg(s, n, "Curie, Marie") =>
                    (StoredAs(s, n, "ORG_UNIT") /\ Created(s).name = "CURIE")']_vars
    /\ [][(ret'.op = "update" /\ ret'.outcome = "updated") =>
            \A s \in {x \in Sessions : x = ret'.session},
               id \in {ret'.id}, fields \in {ret'.fields} :
                (Update(s, id, fields) /\ "name" \in DOMAIN fields) =>
                    View(s)'.pati[id].name = upper(fields["name"])]_vars

(* the role CURIE has been added, to a table in which the HUMAN NEWTON    *)
(* was renamed by an update                                               *)
C15_Witness ==
    /\ ret.op = "add_role"
    /\ ret.outcome = "created"
    /\ ret.name = "CURIE"
    /\ Created(ret.session).name = "CURIE"
    /\ Created(ret.session).participant_type = "ROLE"
    /\ View(ret.session).pati[3].name = "CURIE"
    /\ View(ret.session).pati[3].updated_by = "EINSTEIN"

(* ---------------------------------------------------------------------- *)
(* Claims on the queries                                                  *)
(* ---------------------------------------------------------------------- *)
(* the rows of type t that hold the value in the column *)
Holders(store, column, value, t) ==
    {i \in DOMAIN store.pati :
        store.pati[i].participant_type = t /\ store.pati[i][column] = value}

IsExists(s) == \E c \in ExistsChoices : Exists(s, c[1], c[2], c[3])

(* C16: exists(column, value, participant_type) returns the state of the  *)
(* participant, an unset state as ACTIVE, if and only if a participant of *)
(* the given type holds the value in the column, and False otherwise; it  *)
(* changes nothing that is stored.                                        *)
C16_ExistsByKey ==
    /\ [](ret.op = "exists" =>
            \A c \in {chk[ret.session]} :
                IF Holders(View(ret.session), c.column, c.value, c.participant_type) = {}
                THEN ret.outcome = "False"
                ELSE \E i \in Holders(View(ret.session), c.column, c.value,
                                      c.participant_type) :
                        ret.outcome = validate_state(View(ret.session).pati[i].state))
    /\ [][IsExists(1) => (db' = db /\ tx' = tx)]_vars

(* the participants get_all is to return *)
Wanted(store, t, only_active) ==
    {i \in DOMAIN store.pati :
        /\ store.pati[i].participant_type = t
        /\ only_active => store.pati[i].state \in {NULL, "ACTIVE"}}

Ascending(store, result) ==
    \A k \in 1..(Len(result) - 1) :
        sort_key(store.pati[result[k]].display_name)
            < sort_key(store.pati[result[k + 1]].display_name)

(* C20: get_all(type, only_active) returns the participants of the type,  *)
(* the ACTIVE and unset ones only when only_active is true, each once and *)
(* in ascending order of display_name, whatever only_active is.           *)
C20_GetAllOrdered ==
    ret.op = "get_all" =>
        /\ {ret.outcome[k] : k \in DOMAIN ret.outcome}
                = Wanted(View(ret.session), ret.participant_type, ret.only_active)
        /\ Len(ret.outcome)
                = Cardinality(Wanted(View(ret.session), ret.participant_type,
                                     ret.only_active))
        /\ Ascending(View(ret.session), ret.outcome)

(* the step changed nothing that is stored or pending *)
NothingWritten == db' = db /\ tx' = tx

(* the call found nothing: None without the flag, the error with it *)
Missed ==
    /\ "raise_error_if_not_found" \in DOMAIN ret'
    /\ ret'.outcome = IF ret'.raise_error_if_not_found
                      THEN "ParticipantNotFoundError" ELSE "None"
    /\ NothingWritten

(* None is what the caller holds after a query that returned it *)
HoldsNone == ret'.outcome = "None" => obj' = NoObj

(* C19: when no participant matches, get_by_name, get_by_display_name,    *)
(* get_by_id and update return None without the flag and raise            *)
(* ParticipantNotFoundError with it; set_participant_state returns the    *)
(* participant with the state it had and raises only with the flag;       *)
(* nothing stored changes.                                                *)
C19_NotFound ==
    /\ [][ret'.op = "get_by_id" =>
            \A id \in QuerySubjects :
                (GetById(1, id, TRUE, FALSE) /\ id \notin DOMAIN View(1).pati)
                    => (Missed /\ HoldsNone)]_vars
    /\ [][ret'.op = "get_by_name" =>
            ((GetByName(1, "CURIE", "HUMAN")
                /\ Holders(View(1), "name", "CURIE", "HUMAN") = {})
                    => (Missed /\ HoldsNone))]_vars
    /\ [][ret'.op = "get_by_display_name" =>
            ((GetByDisplayName(1, "Curie, Marie", "HUMAN")
                /\ Holders(View(1), "display_name", "Curie, Marie", "HUMAN") = {})
                    => (Missed /\ HoldsNone))]_vars
    /\ [][ret'.op = "update" =>
            \A id \in QuerySubjects :
                (Update(1, id, QueryUpdate) /\ id \notin DOMAIN View(1).pati)
                    => Missed]_vars
    /\ [][ret'.op \in {"terminate_participant", "activate_participant",
                      "set_participant_state"} =>
           \A id \in QuerySubjects \ DOMAIN View(1).pati :
            IsStateOp(1, id) =>
                /\ ret'.state = "ACTIVE"
                /\ ret'.outcome = IF ret'.raise_error_if_not_found
                                  THEN "ParticipantNotFoundError" ELSE "ok"
                /\ NothingWritten]_vars

(* an update of a participant that is not stored has raised, with the     *)
(* termination of EINSTEIN and a GRANT edge pending                       *)
C19_Witness ==
    /\ ret.op = "update"
    /\ ret.outcome = "ParticipantNotFoundError"
    /\ ret.id \notin DOMAIN View(1).pati
    /\ tx[1] # <<>>
    /\ View(1).pati[2].state = "TERMINATED"
    /\ View(1).rel # {}

(* ---------------------------------------------------------------------- *)
(* Claims on the relation repository's create and on the reverse query    *)
(* ---------------------------------------------------------------------- *)
(* C18: ParticipantRelationRepository.create for an edge whose            *)
(* (pati1_id, pati2_id, relation_type) is already stored raises the       *)
(* integrity error when raise_error_on_duplicate is true, and when it is  *)
(* false does not raise and returns None.                                 *)
C18_DuplicateCreate ==
    [][\A e \in CrudEdges, raise_error_on_duplicate \in BOOLEAN :
            (RelCreate(1, e, raise_error_on_duplicate) /\ RowsOf(View(1), e) # {}) =>
                ret'.outcome = IF raise_error_on_duplicate
                               THEN "IntegrityError" ELSE "None"]_vars

(* Symmetry specification: one unit of work adds edges from either end,   *)
(* deletes them and changes the state of their ends                       *)
SymEdges == {<<2, 6, "GRANT">>, <<2, 3, "PROXY OF">>, <<4, 6, "GRANT">>}

SymSubjects == {2, 3, 6}

SymNext ==
    \/ \E e \in SymEdges : AddRelation(1, e)
    \/ \E e \in SymEdges : AddReverseRelation(1, e)
    \/ \E e \in SymEdges, f \in BOOLEAN : DeleteRelation(1, e, f)
    \/ \E p \in SymSubjects : TerminateParticipant(1, p)
    \/ \E p \in SymSubjects : ActivateParticipant(1, p)
    \/ Rollback(1)

SpecSym == Init /\ [][SymNext]_vars

(* the target of r is a related participant of get(source, (type,)) and   *)
(* the source of r one of get_reverse(target, (type,))                    *)
Symmetric(store, r) ==
    /\ \E x \in get(store, r[1], {r[3]}) : x[2] = r[2]
    /\ \E x \in get_reverse(store, r[2], {r[3]}) : x[1] = r[1]

(* add_relation and add_reverse_relation of e, when they succeed, leave   *)
(* the same single row for e                                              *)
SameStoredEdge ==
    [][\A e \in SymEdges :
            (IsAdd(1, e) /\ ret'.outcome = "created") =>
                RowsOf(View(1), e)' = {<<e[1], e[2], e[3], 1>>}]_vars

(* C17, as stated: for every edge (A, B, T) made by add_relation or by    *)
(* add_reverse_relation, as long as its row is stored in the unit of      *)
(* work, B is a related participant of get(A.id, (T,)) and A one of       *)
(* get_reverse(B.id, (T,)); both operations store the same edge.          *)
C17_AsStated ==
    /\ [](\A r \in View(1).rel : Symmetric(View(1), r))
    /\ SameStoredEdge

(* C17, amended: the same, for the edges neither end of which is          *)
(* TERMINATED.                                                            *)
C17_ReverseSymmetry ==
    /\ [](\A r \in View(1).rel :
            (NotTerminated(View(1), r[1]) /\ NotTerminated(View(1), r[2]))
                => Symmetric(View(1), r))
    /\ SameStoredEdge

(* add_reverse_relation has stored an edge that both queries return,      *)
(* beside an edge whose source is terminated                              *)
C17_Witness ==
    /\ ret.op = "add_reverse_relation"
    /\ ret.outcome = "created"
    /\ \E r \in View(1).rel : Symmetric(View(1), r)
    /\ \E r \in View(1).rel : ~NotTerminated(View(1), r[1])

(* ---------------------------------------------------------------------- *)
(* Claims on the deletion of relations                                    *)
(* ---------------------------------------------------------------------- *)
IsDelete(s, e, raise_error_if_not_found) ==
    \/ DeleteRelation(s, e, raise_error_if_not_found)
    \/ DeleteReverseRelation(s, e, raise_error_if_not_found)

(* C21: delete_relation and delete_reverse_relation of (source, target,   *)
(* T) remove the row of that edge and no other row, and no participant;   *)
(* when the edge is not stored they change nothing, and raise             *)
(* ParticipantRelationNotFoundError only if raise_error_if_not_found;     *)
(* afterwards get(source, (T,)) does not contain the target.              *)
C21_DeleteExactlyTheEdge ==
    [][ret'.op \in {"delete_relation", "delete_reverse_relation"} =>
        \A e \in CrudEdges, raise_error_if_not_found \in BOOLEAN :
            IsDelete(1, e, raise_error_if_not_found) =>
                /\ View(1)'.rel = {r \in View(1).rel : Edge(r) # e}
                /\ View(1)'.pati = View(1).pati
                /\ db' = db
                /\ (RowsOf(View(1), e) = {} => View(1)' = View(1))
                /\ ret'.outcome =
                        IF RowsOf(View(1), e) = {} /\ raise_error_if_not_found
                        THEN "ParticipantRelationNotFoundError" ELSE "ok"
                /\ GetEntries(View(1), e)' = 0]_vars

(* delete_reverse_relation has removed one row and left another *)
C21_Witness ==
    /\ ret.op = "delete_reverse_relation"
    /\ ret.rowcount = 1
    /\ View(1).rel # {}

(* C22: delete_all_participant_relations(id) removes every row in which   *)
(* id is pati1_id or pati2_id and returns their number; the rows that do  *)
(* not involve id and the participants stay as they are; afterwards       *)
(* get(id, ...) and get_reverse(id, ...) are empty.                       *)
C22_DeleteAllRelations ==
    [][ret'.op = "delete_all_participant_relations" =>
        \A id \in {ret'.participant_id} :
            DeleteAllParticipantRelations(1, id) =>
                /\ View(1)'.rel = {r \in View(1).rel : r[1] # id /\ r[2] # id}
                /\ ret'.rowcount = Cardinality(View(1).rel) - Cardinality(View(1)'.rel)
                /\ View(1)'.pati = View(1).pati
                /\ db' = db
                /\ get(View(1)', id, ParticipantRelationType) = {}
                /\ get_reverse(View(1)', id, ParticipantRelationType) = {}]_vars

(* rows with the participant as source and as target have been removed,   *)
(* and a row that does not involve it is left                             *)
C22_Witness ==
    /\ ret.op = "delete_all_participant_relations"
    /\ ret.rowcount = 2
    /\ ret.participant_id = 2
    /\ <<4, 6, "GRANT", 1>> \in View(1).rel
    /\ <<3, 2, "PROXY OF", 1>> \in db.rel

(* ---------------------------------------------------------------------- *)
(* Unit-of-work specification: one session creates, updates, changes      *)
(* states and relations, reads, and commits or rolls back                 *)
(* ---------------------------------------------------------------------- *)
UowSubjects == {2, Len(create_participants) + 1}

UowNext ==
    \/ AddUser(1, "curie", "Curie, Marie")
    \/ \E id \in UowSubjects : Update(1, id, QueryUpdate)
    \/ \E id \in UowSubjects : TerminateParticipant(1, id)
    \/ \E id \in UowSubjects : ActivateParticipant(1, id)
    \/ AddRelation(1, FieldEdge)
    \/ \E f \in BOOLEAN : DeleteRelation(1, FieldEdge, f)
    \/ \E id \in UowSubjects : DeleteAllParticipantRelations(1, id)
    \/ \E id \in UowSubjects : GetById(1, id, TRUE, FALSE)
    \/ GetByName(1, "CURIE", "HUMAN")
    \/ Commit(1)
    \/ Rollback(1)

SpecUow == Init /\ [][UowNext]_vars

(* C23: no repository operation but commit changes the committed table;  *)
(* a rollback leaves the session with the committed contents, which are   *)
(* those before the uncommitted operations; a read inside the unit of     *)
(* work returns what the session has written so far.                      *)
C23_NothingCommitsButCommit ==
    /\ [][ret'.op # "commit" => db' = db]_vars
    /\ [][ret'.op = "rollback" => tx'[1] = <<>> /\ View(1)' = db]_vars
    /\ [][(ret'.op = "get_by_id" /\ ret'.outcome = "ok") =>
            obj' = set_relations(View(1), NewParticipant(View(1), obj'.id), FALSE)]_vars
    /\ [][(ret'.op = "get_by_name" /\ ret'.outcome = "ok") =>
            /\ obj'.id \in DOMAIN View(1).pati
            /\ View(1).pati[obj'.id].name = obj'.name]_vars

(* a read has returned a participant and a role that were never           *)
(* committed, and the unit of work has been rolled back                   *)
C23_Witness ==
    /\ ret.op = "rollback"
    /\ tx[1] = <<>>
    /\ db.rel = {}
    /\ obj # NoObj
    /\ obj.roles # {}
    /\ Len(db.pati) = Len(create_participants)

(* ---------------------------------------------------------------------- *)
(* Claims on the cache of check_access                                    *)
(* ---------------------------------------------------------------------- *)
(* C24: the cache of check_access is invalidated whenever the roles of a  *)
(* user in the enforcer change (login, sync_enforcer_roles,               *)
(* role_checkbox_callback): no check_access of the session returns a      *)
(* result that was computed before the roles of the user became what      *)
(* they are.                                                              *)
C24_NoStaleAccess ==
    (ret.op = "check_access" /\ ret.session = 1) =>
        ret.roles = get_roles_for_user(st.policy_enforcer, ret.username)

(* ---------------------------------------------------------------------- *)
(* Proxy specification: NEWTON is made proxy target of EINSTEIN, gets and  *)
(* loses a role, states change, and his Participant object is hydrated    *)
(* with its proxies, anew or again                                        *)
(* ---------------------------------------------------------------------- *)
ProxyEdges == {<<2, 3, "PROXY OF">>, <<3, 6, "GRANT">>}

ProxySubject == 3

ProxyNext ==
    \/ \E e \in ProxyEdges : AddRelation(1, e)
    \/ \E e \in ProxyEdges, f \in BOOLEAN : DeleteRelation(1, e, f)
    \/ \E p \in {2, 3, 6} : TerminateParticipant(1, p)
    \/ \E p \in {2, 3, 6} : ActivateParticipant(1, p)
    \/ \E x \in BOOLEAN : GetById(1, ProxySubject, TRUE, x)
    \/ \E x \in BOOLEAN : SetRelations(1, x)

SpecProxy == Init /\ [][ProxyNext]_vars

(* the ACTIVE participants that are the source of a stored PROXY OF edge  *)
(* whose target is id                                                     *)
ActiveProxies(store, id) ==
    {Related(store, r[1]) : r \in {x \in store.rel :
        x[2] = id /\ x[3] = "PROXY OF" /\ RelatedState(store, x[1]) = "ACTIVE"}}

(* C25: set_relations(P, set_proxies=True) sets P.proxies to exactly the  *)
(* ACTIVE sources of the PROXY OF edges whose target is P, also for a P   *)
(* without outgoing relations.                                            *)
C25_ProxiesHydrated ==
    [][(SetRelations(1, TRUE) \/ GetById(1, ProxySubject, TRUE, TRUE)) =>
            obj'.proxies = ActiveProxies(View(1), obj'.id)]_vars

(* C28: set_relations(P) makes P.roles, P.org_units and P.proxy_of the    *)
(* ACTIVE targets of the GRANT, MEMBER OF and PROXY OF edges that get      *)
(* returns for P now, whatever the lists held before: they become empty   *)
(* when the edges of P have been deleted or P has been terminated since   *)
(* the object was hydrated.                                               *)
C28_RehydrationResets ==
    [][(\E x \in BOOLEAN : SetRelations(1, x)) =>
            /\ obj'.roles = ActiveTargets(View(1),
                    get(View(1), obj.id, ParticipantRelationType), "GRANT")
            /\ obj'.org_units = ActiveTargets(View(1),
                    get(View(1), obj.id, ParticipantRelationType), "MEMBER OF")
            /\ obj'.proxy_of = ActiveTargets(View(1),
                    get(View(1), obj.id, ParticipantRelationType), "PROXY OF")]_vars

(* ---------------------------------------------------------------------- *)
(* Role hierarchy specification: get_all_roles_of_roles on every          *)
(* hierarchy over three roles, cycles and self-references included        *)
(* ---------------------------------------------------------------------- *)
RoleUniverse == {"ADMINISTRATOR", "USER_WRITE", "USER_READ"}

HierarchyInit ==
    /\ db = [pati |-> create_participants, rel |-> {}]
    /\ tx = [s \in Sessions |-> <<>>]
    /\ obj = NoObj
    /\ ret = [op |-> "init", outcome |-> "ok"]
    /\ clock = 1
    /\ st \in {[NoSession EXCEPT !.policy_enforcer = NewEnforcer(g)] :
                    g \in SUBSET (RoleUniverse \X RoleUniverse)}
    /\ chk = [s \in Sessions |-> NoCheck]
    /\ cache = NoCache
    /\ run = Idle

GetAllRolesOfRoles(roles) ==
    /\ ret' = [op |-> "get_all_roles_of_roles", roles |-> roles,
               outcome |-> get_all_roles_of_roles(st.policy_enforcer, roles)]
    /\ UNCHANGED <<db, tx, obj, clock, st, chk, cache, run>>

HierarchyNext == \E roles \in SUBSET RoleUniverse : GetAllRolesOfRoles(roles)

SpecHierarchy == HierarchyInit /\ [][HierarchyNext]_vars

(* the sets of roles that hold the roles given and, with a role, the      *)
(* roles get_roles gives for it                                           *)
ClosedSets(g, roles) ==
    {S \in SUBSET RoleUniverse :
        roles \subseteq S /\ \A e \in g : e[1] \in S => e[2] \in S}

(* the reflexive-transitive closure: the roles that are in every such set *)
Closure(g, roles) ==
    {r \in RoleUniverse : \A S \in ClosedSets(g, roles) : r \in S}

(* C26: get_all_roles_of_roles(R) returns, for every hierarchy, cyclic    *)
(* ones included, the reflexive-transitive closure of R under get_roles:  *)
(* the roles of R, the roles reachable from them, and no other.           *)
C26_RoleClosure ==
    ret.op = "get_all_roles_of_roles" =>
        ret.outcome = Closure(st.policy_enforcer.g, ret.roles)

(* in a hierarchy with a cycle between two roles, the call for one of     *)
(* them has returned both and not the third                               *)
C26_Witness ==
    /\ ret.op = "get_all_roles_of_roles"
    /\ {<<"USER_WRITE", "USER_READ">>, <<"USER_READ", "USER_WRITE">>}
            \subseteq st.policy_enforcer.g
    /\ ret.roles = {"USER_READ"}
    /\ ret.outcome = {"USER_WRITE", "USER_READ"}

(* ---------------------------------------------------------------------- *)
(* Concurrent-update specification: two sessions read EINSTEIN by id,     *)
(* update the row and commit or roll back                                 *)
(* ---------------------------------------------------------------------- *)
ConcSubject == 2

ConcUpdates ==
    {[description |-> "physicist", state |-> "TERMINATED", updated_by |-> "einstein"],
     [description |-> "violinist", updated_by |-> "newton"],
     [update_count |-> 5, updated_by |-> "newton"]}

ConcNext ==
    \/ \E s \in Sessions : Exists(s, "id", ConcSubject, "HUMAN")
    \/ \E s \in Sessions, fields \in ConcUpdates :
            chk[s] # NoCheck /\ Update(s, ConcSubject, fields)
    \/ \E s \in Sessions : Commit(s)
    \/ \E s \in Sessions : Rollback(s)

SpecConc == Init /\ [][ConcNext]_vars

(* C27: update neither compares nor increments update_count. An update    *)
(* of a stored participant by a session that read it is carried out       *)
(* whatever another session has committed since; update_count keeps its   *)
(* value unless the payload sets it; a commit stores the row as the       *)
(* committing session wrote it, so that of two commits the later one      *)
(* decides a field both wrote.                                            *)
C27_LastWriteWins ==
    /\ [][ret'.op = "update" =>
            \A s \in {ret'.session}, fields \in {ret'.fields} :
                Update(s, ConcSubject, fields) =>
                    /\ ret'.outcome = "updated"
                    /\ \A f \in DOMAIN fields \ {"updated_by"} :
                            View(s)'.pati[ConcSubject][f] = fields[f]
                    /\ "update_count" \notin DOMAIN fields =>
                            View(s)'.pati[ConcSubject].update_count
                                = View(s).pati[ConcSubject].update_count]_vars
    /\ [][\A s \in Sessions : Commit(s) => db' = View(s)]_vars

(* the second session read EINSTEIN as ACTIVE, the first committed a      *)
(* description and the termination, and the second then committed its     *)
(* description over it: the first description is lost, the count is 0     *)
C27_Witness ==
    /\ ret.op = "commit"
    /\ chk[1] # NoCheck
    /\ chk[2] # NoCheck
    /\ chk[2].result = "ACTIVE"
    /\ db.pati[ConcSubject].state = "TERMINATED"
    /\ db.pati[ConcSubject].description = "violinist"
    /\ db.pati[ConcSubject].updated_by = "NEWTON"
    /\ db.pati[ConcSubject].update_count = 0

(* ---------------------------------------------------------------------- *)
(* users.py: the Save button of the update form                           *)
(* ---------------------------------------------------------------------- *)
(* A unit of work as save_user_changes walks through it: the contents the *)
(* session sees and "ok" until a call has raised.                         *)
Unit(store) == [store |-> store, outcome |-> "ok"]

(* a call that raised: the failed flush has rolled the session back *)
Raise(error) == [store |-> db, outcome |-> error]

(* add_relations / add_reverse_relations: one add_relation for each id,   *)
(* in turn, until one raises                                              *)
RECURSIVE add_relations(_, _)
add_relations(unit, edges) ==
    IF edges = {} \/ unit.outcome # "ok" THEN unit
    ELSE add_relations(
            IF participant_relations_ak1(unit.store, CHOOSE e \in edges : TRUE)
            THEN Unit([unit.store EXCEPT
                        !.rel = @ \cup {Edge(CHOOSE e \in edges : TRUE) \o <<1>>}])
            ELSE Raise("IntegrityError"),
            edges \ {CHOOSE e \in edges : TRUE})

(* delete_relations / delete_reverse_relations: raise_error_if_not_found  *)
(* keeps its default, False                                               *)
delete_relations(unit, edges) ==
    IF unit.outcome # "ok" THEN unit
    ELSE Unit(DeleteRows(unit.store,
                         {r \in unit.store.rel : Edge(r) \in edges}))

(* compare_lists(a, b): a - b and b - a *)
compare_lists(a, b) == <<a \ b, b \ a>>

(* the ids of a list of the selected user, the roles without PUBLIC *)
user_roles(selected_user) ==
    {r.id : r \in {x \in selected_user.roles : x.name # "PUBLIC"}}

ListIds(list) == {r.id : r \in list}

(* user_changes with updated_by, validated *)
SaveUpdate(user_changes) ==
    modified_fields(ParticipantUpdate(
        [f \in DOMAIN user_changes \cup {"updated_by"} |->
            IF f = "updated_by" THEN "einstein" ELSE user_changes[f]]))

(* if update.state and update.state == TERMINATED:                        *)
(*     delete_all_participant_relations(selected_user.id)                 *)
purge(store, update, id) ==
    IF "state" \in DOMAIN update /\ update["state"] = "TERMINATED"
    THEN DeleteRows(store, InvolvedRows(store, id))
    ELSE store

(* if user_changes: update, and the purge of a termination *)
SaveChanges(store, selected_user, user_changes) ==
    IF DOMAIN user_changes = {} THEN Unit(store)
    ELSE IF UpdateAccepted(store, selected_user.id, SaveUpdate(user_changes))
    THEN Unit(purge(UpdateRow(store, selected_user.id, SaveUpdate(user_changes)),
                    SaveUpdate(user_changes), selected_user.id))
    ELSE Raise(UpdateError(store, selected_user.id, SaveUpdate(user_changes)))

Outgoing(id, ids, t) == {<<id, i, t>> : i \in ids}

Incoming(id, ids, t) == {<<i, id, t>> : i \in ids}

(* save_user_changes: the update, then the additions and deletions that   *)
(* the selections make against the lists of selected_user, in the order   *)
(* of the code: roles, org units, proxy of, proxies                       *)
save_user_changes(store, selected_user, user_changes, selected_roles, selected_org_units, selected_proxy_of, selected_proxies) ==
    delete_relations(add_relations(
    delete_relations(add_relations(
    delete_relations(add_relations(
    delete_relations(add_relations(
        SaveChanges(store, selected_user, user_changes),
        Outgoing(selected_user.id,
                 compare_lists(selected_roles, user_roles(selected_user))[1], "GRANT")),
        Outgoing(selected_user.id,
                 compare_lists(selected_roles, user_roles(selected_user))[2], "GRANT")),
        Outgoing(selected_user.id,
                 compare_lists(selected_org_units, ListIds(selected_user.org_units))[1],
                 "MEMBER OF")),
        Outgoing(selected_user.id,
                 compare_lists(selected_org_units, ListIds(selected_user.org_units))[2],
                 "MEMBER OF")),
        Outgoing(selected_user.id,
                 compare_lists(selected_proxy_of, ListIds(selected_user.proxy_of))[1],
                 "PROXY OF")),
        Outgoing(selected_user.id,
                 compare_lists(selected_proxy_of, ListIds(selected_user.proxy_of))[2],
                 "PROXY OF")),
        Incoming(selected_user.id,
                 compare_lists(selected_proxies, ListIds(selected_user.proxies))[1],
                 "PROXY OF")),
        Incoming(selected_user.id,
                 compare_lists(selected_proxies, ListIds(selected_user.proxies))[2],
                 "PROXY OF"))

(* the return value: True if a change was made *)
Updated(selected_user, user_changes, selected_roles, selected_org_units, selected_proxy_of, selected_proxies) ==
    \/ DOMAIN user_changes # {}
    \/ selected_roles # user_roles(selected_user)
    \/ selected_org_units # ListIds(selected_user.org_units)
    \/ selected_proxy_of # ListIds(selected_user.proxy_of)
    \/ selected_proxies # ListIds(selected_user.proxies)

(* The Save button: save_user_changes on the user selected before, in a   *)
(* ParticipantRepository block of its own; rollback when it raised,       *)
(* commit when it returned True. ret keeps the relation rows the session  *)
(* held when save_user_changes returned.                                  *)
SaveUser(s, user_changes, selected_roles, selected_org_units, selected_proxy_of, selected_proxies) ==
    /\ obj # NoObj
    /\ CanWrite(s)
    /\ tx[s] = <<>>
    /\ NumRows(db) + Cardinality(selected_roles) + Cardinality(selected_org_units)
         + Cardinality(selected_proxy_of) + Cardinality(selected_proxies) <= MaxRel
    /\ LET unit == save_user_changes(db, obj, user_changes, selected_roles,
                       selected_org_units, selected_proxy_of, selected_proxies)
       IN /\ db' = IF unit.outcome = "ok"
                      /\ Updated(obj, user_changes, selected_roles,
                                 selected_org_units, selected_proxy_of,
                                 selected_proxies)
                   THEN unit.store ELSE db
          /\ ret' = [op |-> "save_user_changes", id |-> obj.id,
                     user_changes |-> user_changes,
                     rel |-> unit.store.rel,
                     outcome |-> unit.outcome]
    /\ UNCHANGED <<tx, obj, clock, st, chk, cache, run>>

(* ---------------------------------------------------------------------- *)
(* Save specification: an administrator selects a user and saves the form *)
(* ---------------------------------------------------------------------- *)
SaveSubject == 2

(* the dictionaries the form builds: nothing changed, the state toggled *)
UserChanges ==
    {[f \in {} |-> NULL], [state |-> "TERMINATED"], [state |-> "ACTIVE"]}

SaveNext ==
    \/ GetById(1, SaveSubject, TRUE, TRUE)
    \/ \E user_changes \in UserChanges,
          selected_roles \in SUBSET {6},
          selected_org_units \in SUBSET {4},
          selected_proxy_of \in SUBSET {3},
          selected_proxies \in SUBSET {3} :
            SaveUser(1, user_changes, selected_roles, selected_org_units,
                     selected_proxy_of, selected_proxies)

SpecSave == Init /\ [][SaveNext]_vars

(* C30: when save_user_changes has applied an update that sets the state  *)
(* of the user to TERMINATED and returns, no relation row has that user   *)
(* as source or target, whatever was selected with the termination.       *)
C30_TerminationPurges ==
    (/\ ret.op = "save_user_changes"
     /\ ret.outcome = "ok"
     /\ "state" \in DOMAIN ret.user_changes
     /\ ret.user_changes["state"] = "TERMINATED")
    => /\ \A r \in ret.rel : r[1] # ret.id /\ r[2] # ret.id
       /\ \A r \in db.rel : r[1] # ret.id /\ r[2] # ret.id

(* ---------------------------------------------------------------------- *)
(* RepositoryBase as a context manager: the with-block of a caller        *)
(* ---------------------------------------------------------------------- *)
(* the exceptions the operations of this model raise *)
Exceptions ==
    {"IntegrityError", "CompileError", "ValidationError",
     "ParticipantNotFoundError", "ParticipantRelationNotFoundError"}

(* the last call raised: an exception is on its way out of the block *)
Raised == ret.outcome \in Exceptions

exit_keeps(s, exc_info) == tx

(* __exit__: if any(exc_info): self.session.rollback() *)
exit(s, exc_info) == IF exc_info THEN session_rollback(s) ELSE tx

(* __enter__: returns self *)
Enter(s) ==
    /\ run.at = "idle"
    /\ run' = [at |-> "with"]
    /\ ret' = [op |-> "__enter__", outcome |-> "ok"]
    /\ UNCHANGED <<db, tx, obj, clock, st, chk, cache>>

(* __exit__: reached when the block is left, at once when a call raised.  *)
(* ret keeps whether the exit was exceptional and whether the session     *)
(* held uncommitted changes then.                                         *)
Exit(s) ==
    /\ run.at = "with"
    /\ tx' = exit(s, Raised)
    /\ run' = Idle
    /\ ret' = [op |-> "__exit__", exc_info |-> Raised, pending |-> tx[s] # <<>>,
               outcome |-> "ok"]
    /\ UNCHANGED <<db, obj, clock, st, chk, cache>>

(* the statements of a block run until one raises *)
InBlock == run.at = "with" /\ ~Raised

(* ---------------------------------------------------------------------- *)
(* Block specification: units of work inside with-blocks on one session,  *)
(* committed inside the block or after it                                 *)
(* ---------------------------------------------------------------------- *)
BlockNext ==
    \/ Enter(1)
    \/ InBlock /\ AddUser(1, "curie", "Curie, Marie")
    \/ InBlock /\ \E id \in UowSubjects : Update(1, id, QueryUpdate)
    \/ InBlock /\ \E id \in UowSubjects : TerminateParticipant(1, id)
    \/ InBlock /\ AddRelation(1, FieldEdge)
    \/ InBlock /\ AddReverseRelation(1, FieldEdge)
    \/ InBlock /\ \E f \in BOOLEAN : DeleteRelation(1, FieldEdge, f)
    \/ InBlock /\ Commit(1)
    \/ Exit(1)
    \/ run.at = "idle" /\ Commit(1)

SpecBlock == Init /\ [][BlockNext]_vars

(* C29: when a call raises inside a repository with-block, the session is *)
(* rolled back: leaving the caller's block with the exception, and a      *)
(* failed add_relation or add_reverse_relation in the block these open,   *)
(* leave nothing pending, so that the session sees the last committed     *)
(* contents, whatever succeeded in the unit of work before; the committed *)
(* contents change by a commit only, to what the session then holds.      *)
C29_RaiseRollsBack ==
    /\ [][(ret'.op = "__exit__" /\ ret'.exc_info) =>
            tx'[1] = <<>> /\ View(1)' = db /\ db' = db]_vars
    /\ [][(ret'.op \in {"add_relation", "add_reverse_relation"}
             /\ ret'.outcome \in Exceptions /\ ret' # ret) =>
            tx'[1] = <<>> /\ View(1)' = db /\ db' = db]_vars
    /\ [][IF ret'.op = "commit" THEN db' = View(1) ELSE db' = db]_vars

(* a block was left with an exception while the session held changes that *)
(* had succeeded, and they are gone                                       *)
C29_Witness ==
    /\ ret.op = "__exit__"
    /\ ret.exc_info
    /\ ret.pending
    /\ tx[1] = <<>>

====
